---- MODULE Spec2Model ----
(***************************************************************************)
(* Symbol dependency graph engine of atomizer:                             *)
(*   - ProjectIndexer  (indexFile, extractNodeDetails, categorizeNode,     *)
(*                      resolveModulePath)                                 *)
(*   - ScopeAnalyzer   (isModuleScopeIdentifierUsed, findUsageInNode)      *)
(*   - DependencyTracer (traceAll, traceDeclaration, findInternalUsage,    *)
(*                      findExternalUsage)                                 *)
(*                                                                         *)
(* Source text is represented by the ESTree the parser produces for it: a  *)
(* top-level node's `raw` is the statement's tree, and parsing `raw` again *)
(* yields a Program whose body is that one statement.  File paths are      *)
(* numbers 1..NumFiles; uuids are the positions in the project map.        *)
(***************************************************************************)
EXTENDS Integers, Sequences, FiniteSets, TLC

VARIABLES project, imports, exports, declarations, indexed, phase, results

vars == <<project, imports, exports, declarations, indexed, phase, results>>

(***************************************************************************)
(* Bounds                                                                  *)
(***************************************************************************)
NumFiles == 3
MaxChain == 3
MaxDepth == 12
MaxItems == 2
MaxCalls == 3

Files == 1..NumFiles

(***************************************************************************)
(* Values                                                                  *)
(***************************************************************************)
NullNode == [type |-> "Null"]
NoName == "<undefined>"
NoPath == 0

IsNull(n) == n.type = "Null"

\* module specifiers: './mK' (relative to the importing file) and the bare
\* package name 'm1'
RelSpec(k) == [kind |-> "relative", base |-> k]
BareSpec == [kind |-> "bare", base |-> 1]
NoSpec == [kind |-> "none", base |-> 0]

(***************************************************************************)
(* ESTree constructors for the statements used as inputs                   *)
(***************************************************************************)
Id(n) == [type |-> "Identifier", name |-> n]
Lit(v) == [type |-> "Literal", value |-> v]
NumLit == Lit(NoSpec)
Member(o, p) == [type |-> "MemberExpression", object |-> o, property |-> p, computed |-> FALSE]
Index(o, p) == [type |-> "MemberExpression", object |-> o, property |-> p, computed |-> TRUE]
Call(f, args) == [type |-> "CallExpression", callee |-> f, arguments |-> args]
ExprStmt(e) == [type |-> "ExpressionStatement", expression |-> e]
Block(stmts) == [type |-> "BlockStatement", body |-> stmts]
Declarator(pat, init) == [type |-> "VariableDeclarator", id |-> pat, init |-> init]
VarDecl(pat, init) == [type |-> "VariableDeclaration", declarations |-> <<Declarator(pat, init)>>]
FuncDecl(f, params, stmts) ==
  [type |-> "FunctionDeclaration", id |-> Id(f), params |-> params, body |-> Block(stmts)]
FuncExpr(f, params, stmts) ==
  [type |-> "FunctionExpression", id |-> f, params |-> params, body |-> Block(stmts)]
Return(e) == [type |-> "ReturnStatement", argument |-> e]
Prop(k, v, sh, comp) ==
  [type |-> "Property", key |-> k, value |-> v, shorthand |-> sh, computed |-> comp]
ObjPattern(props) == [type |-> "ObjectPattern", properties |-> props]
ObjExpr(props) == [type |-> "ObjectExpression", properties |-> props]
Assign(l, r) == [type |-> "AssignmentExpression", left |-> l, right |-> r]
ImportSpec(i, l) == [type |-> "ImportSpecifier", local |-> Id(l), imported |-> Id(i)]
ImportDefaultSpec(l) == [type |-> "ImportDefaultSpecifier", local |-> Id(l)]
ImportNsSpec(l) == [type |-> "ImportNamespaceSpecifier", local |-> Id(l)]
ImportDecl(specs, src) == [type |-> "ImportDeclaration", specifiers |-> specs, source |-> Lit(src)]
ExportSpec(l, e) == [type |-> "ExportSpecifier", local |-> Id(l), exported |-> Id(e)]
ExportNamed(decl, specs, src) ==
  [type |-> "ExportNamedDeclaration", declaration |-> decl, specifiers |-> specs, source |-> src]
ExportDefault(decl) == [type |-> "ExportDefaultDeclaration", declaration |-> decl]
ExportAll(src, exported) == [type |-> "ExportAllDeclaration", source |-> Lit(src), exported |-> exported]
Log(e) == ExprStmt(Call(Member(Id("console"), Id("log")), <<e>>))

(***************************************************************************)
(* ProjectIndexer                                                          *)
(***************************************************************************)
\* `n.name` of an arbitrary node (undefined unless it is an identifier)
NameOf(n) == IF n.type = "Identifier" THEN n.name ELSE NoName

RECURSIVE extractPatternNames(_)
RECURSIVE extractPatternNamesOfProps(_)
RECURSIVE extractPatternNamesOfElems(_)
extractPatternNames(pattern) ==
  IF IsNull(pattern) THEN <<>>
  ELSE CASE pattern.type = "Identifier" -> <<pattern.name>>
         [] pattern.type = "ObjectPattern" -> extractPatternNamesOfProps(pattern.properties)
         [] pattern.type = "ArrayPattern" -> extractPatternNamesOfElems(pattern.elements)
         [] pattern.type = "RestElement" -> extractPatternNames(pattern.argument)
         [] pattern.type = "AssignmentPattern" -> extractPatternNames(pattern.left)
         [] OTHER -> <<>>
extractPatternNamesOfProps(props) ==
  IF props = <<>> THEN <<>>
  ELSE LET prop == Head(props)
           here == CASE prop.type = "Property" -> extractPatternNames(prop.value)
                     [] prop.type = "RestElement" -> extractPatternNames(prop.argument)
                     [] OTHER -> <<>>
       IN here \o extractPatternNamesOfProps(Tail(props))
extractPatternNamesOfElems(elems) ==
  IF elems = <<>> THEN <<>>
  ELSE extractPatternNames(Head(elems)) \o extractPatternNamesOfElems(Tail(elems))

RECURSIVE extractDeclaratorNames(_)
extractDeclaratorNames(declarators) ==
  IF declarators = <<>> THEN <<>>
  ELSE extractPatternNames(Head(declarators).id) \o extractDeclaratorNames(Tail(declarators))

DeclarationWithId ==
  {"FunctionDeclaration", "ClassDeclaration", "TSTypeAliasDeclaration",
   "TSInterfaceDeclaration", "TSEnumDeclaration"}

extractDeclarationNames(node) ==
  IF IsNull(node) THEN <<>>
  ELSE CASE node.type = "VariableDeclaration" -> extractDeclaratorNames(node.declarations)
         [] node.type \in DeclarationWithId ->
              IF NameOf(node.id) # NoName THEN <<node.id.name>> ELSE <<>>
         [] node.type = "Identifier" -> <<node.name>>
         [] OTHER -> <<>>

\* variant: a default specifier is recorded under its local name
extractImportSpecifiersByLocal(node) ==
  [i \in 1..Len(node.specifiers) |->
     LET spec == node.specifiers[i]
     IN CASE spec.type = "ImportDefaultSpecifier" ->
               [type |-> "default", local |-> spec.local.name, imported |-> spec.local.name]
          [] spec.type = "ImportNamespaceSpecifier" ->
               [type |-> "namespace", local |-> spec.local.name, imported |-> "*"]
          [] spec.type = "ImportSpecifier" ->
               [type |-> "named", local |-> spec.local.name, imported |-> spec.imported.name]]

extractImportSpecifiers(node) ==
  [i \in 1..Len(node.specifiers) |->
     LET spec == node.specifiers[i]
     IN CASE spec.type = "ImportDefaultSpecifier" ->
               [type |-> "default", local |-> spec.local.name, imported |-> "default"]
          [] spec.type = "ImportNamespaceSpecifier" ->
               [type |-> "namespace", local |-> spec.local.name, imported |-> "*"]
          [] spec.type = "ImportSpecifier" ->
               [type |-> "named", local |-> spec.local.name, imported |-> spec.imported.name]]

extractExportSpecifiers(node) ==
  [i \in 1..Len(node.specifiers) |->
     [local |-> node.specifiers[i].local.name, exported |-> node.specifiers[i].exported.name]]

extractRequireSource(node) ==
  IF IsNull(node) THEN NoSpec
  ELSE IF /\ node.type = "CallExpression"
          /\ NameOf(node.callee) = "require"
          /\ Len(node.arguments) > 0
          /\ node.arguments[1].type = "Literal"
       THEN node.arguments[1].value
  ELSE IF /\ node.type = "MemberExpression"
          /\ node.object.type = "CallExpression"
          /\ NameOf(node.object.callee) = "require"
          /\ Len(node.object.arguments) > 0
          /\ node.object.arguments[1].type = "Literal"
       THEN node.object.arguments[1].value
  ELSE NoSpec

getDefaultExportName(node) ==
  LET decl == node.declaration
  IN IF IsNull(decl) THEN "default"
     ELSE IF decl.type \in (DeclarationWithId \cup {"FunctionExpression", "ClassExpression"})
             /\ NameOf(decl.id) # NoName
          THEN decl.id.name
     ELSE IF decl.type = "Identifier" THEN decl.name
     ELSE "default"

EmptyDetails ==
  [isExported |-> FALSE, isDefaultExport |-> FALSE, exportedNames |-> <<>>,
   importedNames |-> <<>>, declaredNames |-> <<>>, importSource |-> NoSpec,
   exportSource |-> NoSpec, isRequireImport |-> FALSE]

\* import specifiers built from the declarators of a `require` variable declaration
RECURSIVE requireDetails(_, _)
requireDetails(declarators, details) ==
  IF declarators = <<>> THEN details
  ELSE LET declarator == Head(declarators)
           requireSource == extractRequireSource(declarator.init)
           named == SelectSeq(declarator.id.properties,
                              LAMBDA prop : prop.type = "Property" /\ NameOf(prop.key) # NoName)
           specs ==
             IF declarator.id.type = "Identifier"
             THEN <<[type |-> "require-default", local |-> declarator.id.name, imported |-> "default"]>>
             ELSE IF declarator.id.type = "ObjectPattern"
             THEN [i \in 1..Len(named) |->
                     [type |-> "require-named",
                      local |-> IF NameOf(named[i].value) # NoName
                                THEN named[i].value.name ELSE named[i].key.name,
                      imported |-> named[i].key.name]]
             ELSE <<>>
       IN IF requireSource = NoSpec THEN requireDetails(Tail(declarators), details)
          ELSE requireDetails(Tail(declarators),
                 [details EXCEPT !.importSource = requireSource,
                                 !.isRequireImport = TRUE,
                                 !.importedNames = @ \o specs])

commonJsDetails(node) ==
  LET expr == node.expression
      left == expr.left
      right == expr.right
      isModuleExports == /\ left.type = "MemberExpression"
                         /\ NameOf(left.object) = "module"
                         /\ NameOf(left.property) = "exports"
      isExportsDot == /\ left.type = "MemberExpression"
                      /\ NameOf(left.object) = "exports"
                      /\ NameOf(left.property) # NoName
      keyed == IF right.type = "ObjectExpression"
               THEN SelectSeq(right.properties,
                              LAMBDA prop : prop.type = "Property" /\ NameOf(prop.key) # NoName)
               ELSE <<>>
      afterModule ==
        IF ~isModuleExports THEN EmptyDetails
        ELSE [EmptyDetails EXCEPT
                !.isExported = TRUE,
                !.isDefaultExport = TRUE,
                !.exportedNames =
                   IF right.type = "Identifier"
                   THEN <<[local |-> right.name, exported |-> "default"]>>
                   ELSE IF right.type = "ObjectExpression"
                   THEN [i \in 1..Len(keyed) |->
                           [local |-> IF NameOf(keyed[i].value) # NoName
                                      THEN keyed[i].value.name ELSE keyed[i].key.name,
                            exported |-> keyed[i].key.name]]
                   ELSE <<[local |-> "default", exported |-> "default"]>>]
  IN IF ~isExportsDot THEN afterModule
     ELSE [afterModule EXCEPT
             !.isExported = TRUE,
             !.exportedNames =
                <<[local |-> IF NameOf(right) # NoName THEN right.name ELSE left.property.name,
                   exported |-> left.property.name]>>]

extractNodeDetails(node) ==
  CASE node.type = "ImportDeclaration" ->
         [EmptyDetails EXCEPT !.importSource = node.source.value,
                              !.importedNames = extractImportSpecifiers(node)]
    [] node.type = "ExportNamedDeclaration" ->
         IF ~IsNull(node.source)
         THEN [EmptyDetails EXCEPT !.isExported = TRUE,
                                   !.exportSource = node.source.value,
                                   !.exportedNames = extractExportSpecifiers(node)]
         ELSE IF ~IsNull(node.declaration)
         THEN LET declared == extractDeclarationNames(node.declaration)
              IN [EmptyDetails EXCEPT
                    !.isExported = TRUE,
                    !.declaredNames = declared,
                    !.exportedNames = [i \in 1..Len(declared) |->
                                         [local |-> declared[i], exported |-> declared[i]]]]
         ELSE [EmptyDetails EXCEPT !.isExported = TRUE,
                                   !.exportedNames = extractExportSpecifiers(node)]
    [] node.type = "ExportDefaultDeclaration" ->
         [EmptyDetails EXCEPT
            !.isExported = TRUE,
            !.isDefaultExport = TRUE,
            !.exportedNames = <<[local |-> getDefaultExportName(node), exported |-> "default"]>>,
            !.declaredNames = extractDeclarationNames(node.declaration)]
    [] node.type = "ExportAllDeclaration" ->
         [EmptyDetails EXCEPT
            !.isExported = TRUE,
            !.exportSource = node.source.value,
            !.exportedNames =
               <<[local |-> "*",
                  exported |-> IF NameOf(node.exported) # NoName THEN node.exported.name ELSE "*"]>>]
    [] node.type = "VariableDeclaration" ->
         requireDetails(node.declarations,
                        [EmptyDetails EXCEPT !.declaredNames = extractDeclarationNames(node)])
    [] node.type \in (DeclarationWithId \cup {"TSModuleDeclaration"}) ->
         IF NameOf(node.id) # NoName
         THEN [EmptyDetails EXCEPT !.declaredNames = <<node.id.name>>]
         ELSE EmptyDetails
    [] node.type = "ExpressionStatement" ->
         IF node.expression.type = "AssignmentExpression"
         THEN commonJsDetails(node)
         ELSE EmptyDetails
    [] OTHER -> EmptyDetails

\* variant: a variable declaration is a declaration only, require or not
categorizeNodeSansRequire(enrichedNode, originalNode) ==
  LET type == originalNode.type
  IN CASE type = "ImportDeclaration" ->
            [imports |-> TRUE, exports |-> FALSE, declarations |-> FALSE]
       [] type \in {"ExportNamedDeclaration", "ExportDefaultDeclaration", "ExportAllDeclaration"} ->
            [imports |-> FALSE, exports |-> TRUE,
             declarations |-> /\ type # "ExportAllDeclaration"
                              /\ ~IsNull(originalNode.declaration)
                              /\ Len(enrichedNode.declaredNames) > 0]
       [] type \in ({"VariableDeclaration", "TSModuleDeclaration"} \cup DeclarationWithId) ->
            [imports |-> FALSE, exports |-> FALSE, declarations |-> TRUE]
       [] type = "ExpressionStatement" ->
            [imports |-> FALSE, exports |-> enrichedNode.isExported, declarations |-> FALSE]
       [] OTHER -> [imports |-> FALSE, exports |-> FALSE, declarations |-> FALSE]

\* which of the specialised maps categorizeNode puts the node in
categorizeNode(enrichedNode, originalNode) ==
  LET type == originalNode.type
      left == originalNode.expression.left
  IN CASE type = "ImportDeclaration" ->
            [imports |-> TRUE, exports |-> FALSE, declarations |-> FALSE]
       [] type \in {"ExportNamedDeclaration", "ExportDefaultDeclaration", "ExportAllDeclaration"} ->
            [imports |-> FALSE, exports |-> TRUE,
             declarations |-> /\ type # "ExportAllDeclaration"
                              /\ ~IsNull(originalNode.declaration)
                              /\ Len(enrichedNode.declaredNames) > 0]
       [] type \in ({"VariableDeclaration", "TSModuleDeclaration"} \cup DeclarationWithId) ->
            [imports |-> enrichedNode.isRequireImport, exports |-> FALSE, declarations |-> TRUE]
       [] type = "ExpressionStatement" ->
            [imports |-> FALSE,
             exports |-> /\ originalNode.expression.type = "AssignmentExpression"
                         /\ left.type = "MemberExpression"
                         /\ \/ NameOf(left.object) = "module" /\ NameOf(left.property) = "exports"
                            \/ NameOf(left.object) = "exports",
             declarations |-> FALSE]
       [] OTHER -> [imports |-> FALSE, exports |-> FALSE, declarations |-> FALSE]

\* variant: ids restart with every file instead of being fresh
enrichedNodeNumberedPerFile(file, body, i) ==
  LET d == extractNodeDetails(body[i])
  IN [uuid |-> i,
      filePath |-> file,
      nodeType |-> body[i].type,
      raw |-> body[i],
      isExported |-> d.isExported,
      isDefaultExport |-> d.isDefaultExport,
      exportedNames |-> d.exportedNames,
      importedNames |-> d.importedNames,
      declaredNames |-> d.declaredNames,
      importSource |-> d.importSource,
      exportSource |-> d.exportSource,
      isRequireImport |-> d.isRequireImport]

\* the enriched record indexFile builds for the i-th statement of a file
enrichedNode(file, body, i) ==
  LET d == extractNodeDetails(body[i])
  IN [uuid |-> Len(project) + i,
      filePath |-> file,
      nodeType |-> body[i].type,
      raw |-> body[i],
      isExported |-> d.isExported,
      isDefaultExport |-> d.isDefaultExport,
      exportedNames |-> d.exportedNames,
      importedNames |-> d.importedNames,
      declaredNames |-> d.declaredNames,
      importSource |-> d.importSource,
      exportSource |-> d.exportSource,
      isRequireImport |-> d.isRequireImport]

\* indexAll's loop body for a file that parses: every top-level statement is
\* added to project and to the maps categorizeNode selects
IndexFile(file, body) ==
  LET nodes == [i \in 1..Len(body) |-> enrichedNode(file, body, i)]
      pick(which) == SelectSeq(nodes, LAMBDA n : categorizeNode(n, n.raw)[which])
  IN /\ phase = "indexing"
     /\ file = indexed + 1
     /\ project' = project \o nodes
     /\ imports' = imports \o pick("imports")
     /\ exports' = exports \o pick("exports")
     /\ declarations' = declarations \o pick("declarations")
     /\ indexed' = file
     /\ UNCHANGED <<phase, results>>

\* variant: the parse error escapes indexAll
IndexFileParseErrorEscapes(file) ==
  /\ phase = "indexing"
  /\ file = indexed + 1
  /\ indexed' = file
  /\ phase' = "threw"
  /\ UNCHANGED <<project, imports, exports, declarations, results>>

\* indexAll's loop body for a file whose parse throws: the error is caught
\* and the file contributes nothing
IndexFileParseError(file) ==
  /\ phase = "indexing"
  /\ file = indexed + 1
  /\ indexed' = file
  /\ UNCHANGED <<project, imports, exports, declarations, phase, results>>

\* no alias table, no baseUrl: a relative specifier resolves to the file it
\* names, a bare package specifier is unresolved
resolveModulePath(source, fromDir) ==
  IF source.kind = "relative" THEN source.base ELSE NoPath

(***************************************************************************)
(* ScopeAnalyzer                                                           *)
(***************************************************************************)
ScopeTypes ==
  {"FunctionDeclaration", "FunctionExpression", "ArrowFunctionExpression",
   "ClassDeclaration", "ClassExpression", "BlockStatement", "ForStatement",
   "ForInStatement", "ForOfStatement", "CatchClause"}

createsScope(node) == node.type \in ScopeTypes

RECURSIVE collectPatternNames(_)
RECURSIVE collectPatternNamesOfSeq(_)
collectPatternNames(pattern) ==
  IF IsNull(pattern) THEN {}
  ELSE CASE pattern.type = "Identifier" -> {pattern.name}
         [] pattern.type = "ObjectPattern" ->
              collectPatternNamesOfSeq(
                [i \in 1..Len(pattern.properties) |->
                   LET prop == pattern.properties[i]
                   IN CASE prop.type = "Property" -> prop.value
                        [] prop.type = "RestElement" -> prop.argument
                        [] OTHER -> NullNode])
         [] pattern.type = "ArrayPattern" -> collectPatternNamesOfSeq(pattern.elements)
         [] pattern.type = "RestElement" -> collectPatternNames(pattern.argument)
         [] pattern.type = "AssignmentPattern" -> collectPatternNames(pattern.left)
         [] OTHER -> {}
collectPatternNamesOfSeq(patterns) ==
  IF patterns = <<>> THEN {}
  ELSE collectPatternNames(Head(patterns)) \cup collectPatternNamesOfSeq(Tail(patterns))

\* names bound by the declarators of a variable declaration
declaratorNames(decl) ==
  collectPatternNamesOfSeq([i \in 1..Len(decl.declarations) |-> decl.declarations[i].id])

collectBlockDeclarations(node) ==
  LET statements == IF node.type = "BlockStatement" THEN node.body ELSE <<node.body>>
      ofInit == IF node.type = "ForStatement" /\ node.init.type = "VariableDeclaration"
                THEN declaratorNames(node.init) ELSE {}
      ofLeft == IF node.type \in {"ForInStatement", "ForOfStatement"}
                   /\ node.left.type = "VariableDeclaration"
                THEN declaratorNames(node.left) ELSE {}
      ofStmt(stmt) ==
        CASE stmt.type = "VariableDeclaration" -> declaratorNames(stmt)
          [] stmt.type = "FunctionDeclaration" ->
               IF NameOf(stmt.id) # NoName THEN {stmt.id.name} ELSE {}
          [] OTHER -> {}
  IN ofInit \cup ofLeft \cup UNION {ofStmt(statements[i]) : i \in 1..Len(statements)}

\* variant: function parameters are not added to the shadow set
collectDeclaredNamesSansParams(node) ==
  CASE node.type \in {"FunctionDeclaration", "FunctionExpression", "ArrowFunctionExpression"} ->
         IF NameOf(node.id) # NoName THEN {node.id.name} ELSE {}
    [] node.type = "CatchClause" -> collectPatternNames(node.param)
    [] node.type \in {"BlockStatement", "ForStatement", "ForInStatement", "ForOfStatement"} ->
         collectBlockDeclarations(node)
    [] node.type \in {"ClassDeclaration", "ClassExpression"} ->
         IF NameOf(node.id) # NoName THEN {node.id.name} ELSE {}
    [] OTHER -> {}

\* the names collectDeclaredNames adds to the shadow set on entering node
collectDeclaredNames(node) ==
  CASE node.type \in {"FunctionDeclaration", "FunctionExpression", "ArrowFunctionExpression"} ->
         collectPatternNamesOfSeq(node.params)
           \cup (IF NameOf(node.id) # NoName THEN {node.id.name} ELSE {})
    [] node.type = "CatchClause" -> collectPatternNames(node.param)
    [] node.type \in {"BlockStatement", "ForStatement", "ForInStatement", "ForOfStatement"} ->
         collectBlockDeclarations(node)
    [] node.type \in {"ClassDeclaration", "ClassExpression"} ->
         IF NameOf(node.id) # NoName THEN {node.id.name} ELSE {}
    [] OTHER -> {}

\* the object-valued fields checkChildren visits, as <<field, child>> pairs
\* (array fields contribute one pair per element)
Kids(field, seq) == [i \in 1..Len(seq) |-> <<field, seq[i]>>]

ChildrenOf(node) ==
  CASE node.type = "Program" -> Kids("body", node.body)
    [] node.type = "BlockStatement" -> Kids("body", node.body)
    [] node.type = "ExpressionStatement" -> <<<<"expression", node.expression>>>>
    [] node.type = "ReturnStatement" -> <<<<"argument", node.argument>>>>
    [] node.type = "CallExpression" ->
         <<<<"callee", node.callee>>>> \o Kids("arguments", node.arguments)
    [] node.type = "MemberExpression" ->
         <<<<"object", node.object>>, <<"property", node.property>>>>
    [] node.type = "AssignmentExpression" -> <<<<"left", node.left>>, <<"right", node.right>>>>
    [] node.type = "VariableDeclaration" -> Kids("declarations", node.declarations)
    [] node.type = "VariableDeclarator" -> <<<<"id", node.id>>, <<"init", node.init>>>>
    [] node.type \in {"FunctionDeclaration", "FunctionExpression", "ArrowFunctionExpression"} ->
         <<<<"id", node.id>>>> \o Kids("params", node.params) \o <<<<"body", node.body>>>>
    [] node.type \in {"ObjectExpression", "ObjectPattern"} -> Kids("properties", node.properties)
    [] node.type = "Property" -> <<<<"key", node.key>>, <<"value", node.value>>>>
    [] node.type = "CatchClause" -> <<<<"param", node.param>>, <<"body", node.body>>>>
    [] node.type = "TryStatement" -> <<<<"block", node.block>>, <<"handler", node.handler>>>>
    [] node.type = "ImportDeclaration" ->
         Kids("specifiers", node.specifiers) \o <<<<"source", node.source>>>>
    [] node.type = "ImportSpecifier" -> <<<<"local", node.local>>, <<"imported", node.imported>>>>
    [] node.type \in {"ImportDefaultSpecifier", "ImportNamespaceSpecifier"} ->
         <<<<"local", node.local>>>>
    [] node.type = "ExportNamedDeclaration" ->
         <<<<"declaration", node.declaration>>>> \o Kids("specifiers", node.specifiers)
           \o <<<<"source", node.source>>>>
    [] node.type = "ExportSpecifier" -> <<<<"local", node.local>>, <<"exported", node.exported>>>>
    [] node.type = "ExportDefaultDeclaration" -> <<<<"declaration", node.declaration>>>>
    [] node.type = "ExportAllDeclaration" ->
         <<<<"source", node.source>>, <<"exported", node.exported>>>>
    [] node.type = "ForStatement" -> <<<<"init", node.init>>, <<"body", node.body>>>>
    [] node.type \in {"ForInStatement", "ForOfStatement"} ->
         <<<<"left", node.left>>, <<"right", node.right>>, <<"body", node.body>>>>
    [] node.type \in {"ClassDeclaration", "ClassExpression"} ->
         <<<<"id", node.id>>, <<"superClass", node.superClass>>, <<"body", node.body>>>>
    [] node.type = "ClassBody" -> Kids("body", node.body)
    [] node.type = "MethodDefinition" -> <<<<"key", node.key>>, <<"value", node.value>>>>
    [] node.type = "TemplateLiteral" ->
         Kids("quasis", node.quasis) \o Kids("expressions", node.expressions)
    [] node.type = "TSTypeAssertion" -> <<<<"expression", node.expression>>>>
    [] node.type = "JSXElement" -> <<<<"openingElement", node.openingElement>>>>
    [] node.type = "JSXOpeningElement" -> <<<<"name", node.name>>>>
    [] OTHER -> <<>>

\* field is the key of parent under which node sits: `parent.key === node`
\* is field = "key", `parent.property === node` is field = "property"
RECURSIVE findUsageInNode(_, _, _, _, _)
\* variant: the names a child scope binds stay in the set for its siblings
checkChildrenLeaking(node, identifier, shadowedNames) ==
  LET kids == ChildrenOf(node)
      leaked == UNION {IF createsScope(kids[i][2]) THEN collectDeclaredNames(kids[i][2]) ELSE {} :
                       i \in 1..Len(kids)}
  IN \E i \in 1..Len(kids) :
       findUsageInNode(kids[i][2], identifier, shadowedNames \cup leaked, node, kids[i][1])

checkChildren(node, identifier, shadowedNames) ==
  LET kids == ChildrenOf(node)
  IN \E i \in 1..Len(kids) :
       findUsageInNode(kids[i][2], identifier, shadowedNames, node, kids[i][1])

\* variant: a member property and an object key are read like any identifier
findUsageInNodeAnyPosition(node, identifier, shadowedNames, parent, field) ==
  IF IsNull(node) THEN FALSE
  ELSE IF node.type = "Identifier" /\ node.name = identifier
  THEN identifier \notin shadowedNames
  ELSE IF node.type = "JSXIdentifier" /\ node.name = identifier
  THEN identifier \notin shadowedNames
  ELSE IF createsScope(node)
  THEN checkChildren(node, identifier, shadowedNames \cup collectDeclaredNames(node))
  ELSE checkChildren(node, identifier, shadowedNames)

findUsageInNode(node, identifier, shadowedNames, parent, field) ==
  IF IsNull(node) THEN FALSE
  ELSE IF node.type = "Identifier" /\ node.name = identifier
  THEN IF parent.type = "Property" /\ field = "key" /\ ~parent.shorthand THEN FALSE
       ELSE IF parent.type = "MemberExpression" /\ field = "property" /\ ~parent.computed
       THEN FALSE
       ELSE identifier \notin shadowedNames
  ELSE IF node.type = "JSXIdentifier" /\ node.name = identifier
  THEN identifier \notin shadowedNames
  ELSE IF createsScope(node)
  THEN checkChildren(node, identifier, shadowedNames \cup collectDeclaredNames(node))
  ELSE checkChildren(node, identifier, shadowedNames)

\* ---- the lexical fallback: source text is a sequence of characters ----
DQ == "\""
SQ == "'"
\* the template-literal quote (written out: the character itself cannot
\* stand in a string here)
Backtick == "backtick"
Backslash == "\\"
Newline == "\n"
RegexFlags == {"g", "i", "m", "s", "u", "y"}
\* the characters of the model that are letters, digits, _ or $
WordChars == {"x", "y", "a", "b", "g", "n", "W"}

\* the index of the quote q that closes a literal whose body is scanned from
\* j on (a backslash takes the next character with it, unless that is a line
\* terminator); 0 if none
RECURSIVE quotedEnd(_, _, _)
quotedEnd(code, j, q) ==
  IF j > Len(code) THEN 0
  ELSE IF code[j] = q THEN j
  ELSE IF code[j] = Backslash
    THEN IF j + 1 <= Len(code) /\ code[j + 1] # Newline THEN quotedEnd(code, j + 2, q) ELSE 0
  ELSE quotedEnd(code, j + 1, q)

\* the replace of every q-quoted literal by an empty string literal, from
\* index i on
RECURSIVE replaceQuoted(_, _, _)
replaceQuoted(code, i, q) ==
  IF i > Len(code) THEN <<>>
  ELSE LET e == IF code[i] = q THEN quotedEnd(code, i + 1, q) ELSE 0
       IN IF e > 0 THEN <<DQ, DQ>> \o replaceQuoted(code, e + 1, q)
          ELSE <<code[i]>> \o replaceQuoted(code, i + 1, q)

\* the index of the first line terminator at or after j, Len(code) + 1 if none
RECURSIVE lineEnd(_, _)
lineEnd(code, j) ==
  IF j > Len(code) \/ code[j] = Newline THEN j ELSE lineEnd(code, j + 1)

\* the replace that removes line comments, from index i on
RECURSIVE removeLineComments(_, _)
removeLineComments(code, i) ==
  IF i > Len(code) THEN <<>>
  ELSE IF code[i] = "/" /\ i + 1 <= Len(code) /\ code[i + 1] = "/"
    THEN removeLineComments(code, lineEnd(code, i + 2))
  ELSE <<code[i]>> \o removeLineComments(code, i + 1)

\* the index after the first star-slash at or after j; 0 if none
RECURSIVE blockEnd(_, _)
blockEnd(code, j) ==
  IF j + 1 > Len(code) THEN 0
  ELSE IF code[j] = "*" /\ code[j + 1] = "/" THEN j + 2
  ELSE blockEnd(code, j + 1)

\* the replace that removes block comments, from index i on
RECURSIVE removeBlockComments(_, _)
removeBlockComments(code, i) ==
  IF i > Len(code) THEN <<>>
  ELSE LET e == IF code[i] = "/" /\ i + 1 <= Len(code) /\ code[i + 1] = "*"
                THEN blockEnd(code, i + 2) ELSE 0
       IN IF e > 0 THEN removeBlockComments(code, e)
          ELSE <<code[i]>> \o removeBlockComments(code, i + 1)

\* the index of the slash that closes a regex literal whose body, scanned
\* from j on, has n items so far (at least one is needed); 0 if none
RECURSIVE regexEnd(_, _, _)
regexEnd(code, j, n) ==
  IF j > Len(code) THEN 0
  ELSE IF code[j] = "/" THEN (IF n >= 1 THEN j ELSE 0)
  ELSE IF code[j] = Backslash
    THEN IF j + 1 <= Len(code) /\ code[j + 1] # Newline
         THEN regexEnd(code, j + 2, n + 1) ELSE 0
  ELSE regexEnd(code, j + 1, n + 1)

\* the index after the flags that start at j
RECURSIVE flagsEnd(_, _)
flagsEnd(code, j) ==
  IF j <= Len(code) /\ code[j] \in RegexFlags THEN flagsEnd(code, j + 1) ELSE j

\* the replace of every regex literal by an empty string literal, from
\* index i on
RECURSIVE replaceRegexLiterals(_, _)
replaceRegexLiterals(code, i) ==
  IF i > Len(code) THEN <<>>
  ELSE LET e == IF code[i] = "/" THEN regexEnd(code, i + 1, 0) ELSE 0
       IN IF e > 0 THEN <<DQ, DQ>> \o replaceRegexLiterals(code, flagsEnd(code, e + 1))
          ELSE <<code[i]>> \o replaceRegexLiterals(code, i + 1)

\* the six replacements, in the order the code chains them
stripLiterals(code) ==
  LET templates == replaceQuoted(code, 1, Backtick)
      singles == replaceQuoted(templates, 1, SQ)
      doubles == replaceQuoted(singles, 1, DQ)
      lines == removeLineComments(doubles, 1)
      blocks == removeBlockComments(lines, 1)
  IN replaceRegexLiterals(blocks, 1)

\* the word-boundary test: the identifier (one character here) with no word
\* character before it and none after it
wordTest(cleaned, identifier) ==
  \E i \in 1..Len(cleaned) :
    /\ cleaned[i] = identifier
    /\ (i = 1 \/ cleaned[i - 1] \notin WordChars)
    /\ (i = Len(cleaned) \/ cleaned[i + 1] \notin WordChars)

regexFallback(code, identifier) == wordTest(stripLiterals(code), identifier)

\* the characters of a text kept as a sequence of lexemes
RECURSIVE CharsOf(_)
CharsOf(lexemes) ==
  IF lexemes = <<>> THEN <<>> ELSE Head(lexemes).chars \o CharsOf(Tail(lexemes))

\* A statement record carries `text`, its characters as a sequence of
\* lexemes, when the text matters; the other statements are plain code that
\* parses on its own.
HasText(code) == "text" \in DOMAIN code

Capitals == {"W"}

\* the test by which isIdentifierUsedInCode decides to parse as JSX: a "<"
\* before a capital letter, or a "/" before a ">"
isJsxOf(code) ==
  /\ HasText(code)
  /\ LET chars == CharsOf(code.text)
     IN \E i \in 1..(Len(chars) - 1) :
          \/ chars[i] = "<" /\ chars[i + 1] \in Capitals
          \/ chars[i] = "/" /\ chars[i + 1] = ">"

\* parse(code, {jsx: isJsx}) throws: with jsx on, an angle-bracket type
\* assertion opens a JSX element that is never closed
parseThrows(code, isJsx) ==
  /\ HasText(code)
  /\ isJsx
  /\ code.type = "ExpressionStatement"
  /\ code.expression.type = "TSTypeAssertion"

\* parse(code) of a fragment that parses is the Program holding the statement
isModuleScopeIdentifierUsed(code, identifier, isJsx) ==
  IF parseThrows(code, isJsx) THEN regexFallback(CharsOf(code.text), identifier)
  ELSE findUsageInNode([type |-> "Program", body |-> <<code>>], identifier, {}, NullNode, "")

isIdentifierUsedInCode(code, identifier) ==
  isModuleScopeIdentifierUsed(code, identifier, isJsxOf(code))

(***************************************************************************)
(* DependencyTracer                                                        *)
(***************************************************************************)
\* the lookup maps the constructor derives from the indices
fileToNodes(filePath) ==
  LET inFile == SelectSeq(project, LAMBDA n : n.filePath = filePath)
  IN [i \in 1..Len(inFile) |-> inFile[i].uuid]

fileToExports(filePath) == SelectSeq(exports, LAMBDA n : n.filePath = filePath)

Includes(seq, e) == \E i \in 1..Len(seq) : seq[i] = e

isNameExported(name, filePath) ==
  LET exportNodes == fileToExports(filePath)
  IN \E i \in 1..Len(exportNodes) :
       \E j \in 1..Len(exportNodes[i].exportedNames) :
         LET exp == exportNodes[i].exportedNames[j]
         IN exp.local = name \/ exp.exported = name

\* the exported aliases of the pairs of a node whose local name is declaredName
exportedAliases(exportNode, declaredName) ==
  LET hits == SelectSeq(exportNode.exportedNames, LAMBDA exp : exp.local = declaredName)
  IN [i \in 1..Len(hits) |-> hits[i].exported]

RECURSIVE aliasesOfNodes(_, _)
aliasesOfNodes(exportNodes, declaredName) ==
  IF exportNodes = <<>> THEN <<>>
  ELSE exportedAliases(Head(exportNodes), declaredName)
         \o aliasesOfNodes(Tail(exportNodes), declaredName)

getExportedNamesForDeclaredName(declaredName, node) ==
  LET own == exportedAliases(node, declaredName)
      separate == aliasesOfNodes(fileToExports(node.filePath), declaredName)
  IN IF own # <<>> THEN own
     ELSE IF separate # <<>> THEN separate
     ELSE <<declaredName>>

\* variant: the declaration itself is not skipped
findInternalUsageWithSelf(declarationUuid, name, filePath) ==
  SelectSeq(fileToNodes(filePath),
            LAMBDA nodeUuid : isIdentifierUsedInCode(project[nodeUuid].raw, name))

findInternalUsage(declarationUuid, name, filePath) ==
  SelectSeq(fileToNodes(filePath),
            LAMBDA nodeUuid : /\ nodeUuid # declarationUuid
                              /\ isIdentifierUsedInCode(project[nodeUuid].raw, name))

NoMatch == [type |-> "none", local |-> NoName, imported |-> NoName]

\* variant: a namespace specifier matches by its imported name only
specifierMatchesSansNamespace(spec, name) ==
  \/ name = "default" /\ spec.type = "default"
  \/ spec.type = "require-default"
  \/ spec.imported = name
  \/ spec.type = "require-named" /\ spec.imported = name

specifierMatches(spec, name) ==
  \/ name = "default" /\ spec.type = "default"
  \/ spec.type = "require-default"
  \/ spec.type = "namespace"
  \/ spec.imported = name
  \/ spec.type = "require-named" /\ spec.imported = name

\* variant: the consumer is searched under the imported name, not the alias
findMatchingImportSpecifierByImported(importNode, name) ==
  LET hits == SelectSeq(importNode.importedNames, LAMBDA spec : specifierMatches(spec, name))
  IN IF hits = <<>> THEN NoMatch ELSE [hits[1] EXCEPT !.local = hits[1].imported]

findMatchingImportSpecifier(importNode, name) ==
  LET hits == SelectSeq(importNode.importedNames, LAMBDA spec : specifierMatches(spec, name))
  IN IF hits = <<>> THEN NoMatch ELSE hits[1]

\* variant: a forwarded binding is followed under its local name, whatever
\* the export statement calls it
findReexportsUnderLocalName(filePath, localName) ==
  LET found == aliasesOfNodes(SelectSeq(fileToExports(filePath),
                                        LAMBDA n : n.exportSource = NoSpec), localName)
  IN [i \in 1..Len(found) |-> localName]

\* the exported names under which filePath exports localName by an export
\* statement that has no source
findReexports(filePath, localName) ==
  aliasesOfNodes(SelectSeq(fileToExports(filePath), LAMBDA n : n.exportSource = NoSpec),
                 localName)

\* variant: the source of the import is not resolved
importResolvesToAnything(importNode, sourceFilePath) ==
  importNode.filePath # sourceFilePath

\* the import statement is in another file and its source resolves to sourceFilePath
importResolvesTo(importNode, sourceFilePath) ==
  /\ importNode.filePath # sourceFilePath
  /\ resolveModulePath(importNode.importSource, importNode.filePath) = sourceFilePath

\* variant: a re-export is followed whatever module it names
exportResolvesToAnything(exportNode, sourceFilePath) ==
  /\ exportNode.filePath # sourceFilePath
  /\ exportNode.exportSource # NoSpec

\* the export statement is in another file, has a source, and the source
\* resolves to sourceFilePath
exportResolvesTo(exportNode, sourceFilePath) ==
  /\ exportNode.filePath # sourceFilePath
  /\ exportNode.exportSource # NoSpec
  /\ resolveModulePath(exportNode.exportSource, exportNode.filePath) = sourceFilePath

\* variant: no cycle guard
alreadyVisitedNever(visited, visitKey) == FALSE

\* `visited.has(visitKey)`
alreadyVisited(visited, visitKey) == visitKey \in visited

\* variant: the wildcard form forwards nothing
matchingExportSpecSansWildcard(exportNode, name) ==
  LET hits == SelectSeq(exportNode.exportedNames, LAMBDA spec : spec.local = name)
  IN IF hits = <<>> THEN [local |-> NoName, exported |-> NoName] ELSE hits[1]

\* the specifier of a re-export-from statement that forwards name
matchingExportSpec(exportNode, name) ==
  LET hits == SelectSeq(exportNode.exportedNames,
                        LAMBDA spec : spec.local = name \/ spec.local = "*")
  IN IF hits = <<>> THEN [local |-> NoName, exported |-> NoName] ELSE hits[1]

\* variant: the trace continues under the name it came with
reexportedNameOfUnrenamed(matchingSpec, name) == name

\* the name the trace continues under behind a re-export-from statement
reexportedNameOf(matchingSpec, name) ==
  IF matchingSpec.exported = "*" THEN name ELSE matchingSpec.exported

\* usageUuids after the scan of the consuming file for localName
RECURSIVE scanConsumers(_, _, _, _)
scanConsumers(usageUuids, consumers, importUuid, localName) ==
  IF consumers = <<>> THEN usageUuids
  ELSE LET consumerUuid == Head(consumers)
           found == /\ consumerUuid # importUuid
                    /\ isIdentifierUsedInCode(project[consumerUuid].raw, localName)
                    /\ ~Includes(usageUuids, consumerUuid)
       IN scanConsumers(IF found THEN Append(usageUuids, consumerUuid) ELSE usageUuids,
                        Tail(consumers), importUuid, localName)

\* A call carries r = [usage, visited, expanded, hits, overflow]: usage is
\* the caller's usageUuids, visited the one Set shared by all calls, expanded
\* the keys added to it in order, hits the keys of the calls the cycle guard
\* returned from, overflow whether the call stack was exhausted (the
\* RangeError then unwinds every frame).
RECURSIVE findExternalUsageAt(_, _, _, _)
RECURSIVE reexportsLoop(_, _, _, _)
RECURSIVE importsLoop(_, _, _, _, _)
RECURSIVE exportsLoop(_, _, _, _, _)

\* variant: the usage found by the recursive call is dropped
recurseDroppingUsage(name, filePath, r, depth) ==
  LET sub == findExternalUsageAt(name, filePath, [r EXCEPT !.usage = <<>>], depth + 1)
  IN [sub EXCEPT !.usage = r.usage]

\* push(...furtherUsage) of the recursive call for (name, filePath)
recurse(name, filePath, r, depth) ==
  LET sub == findExternalUsageAt(name, filePath, [r EXCEPT !.usage = <<>>], depth + 1)
  IN [sub EXCEPT !.usage = r.usage \o sub.usage]

reexportsLoop(reexports, filePath, r, depth) ==
  IF reexports = <<>> \/ r.overflow THEN r
  ELSE reexportsLoop(Tail(reexports), filePath, recurse(Head(reexports), filePath, r, depth), depth)

importsLoop(i, name, sourceFilePath, r, depth) ==
  IF i > Len(imports) \/ r.overflow THEN r
  ELSE LET importNode == imports[i]
           matchingSpec == findMatchingImportSpecifier(importNode, name)
           localName == matchingSpec.local
           scanned == [r EXCEPT !.usage = scanConsumers(@, fileToNodes(importNode.filePath),
                                                        importNode.uuid, localName)]
       IN IF \/ ~importResolvesTo(importNode, sourceFilePath)
             \/ matchingSpec = NoMatch
          THEN importsLoop(i + 1, name, sourceFilePath, r, depth)
          ELSE importsLoop(i + 1, name, sourceFilePath,
                           reexportsLoop(findReexports(importNode.filePath, localName),
                                         importNode.filePath, scanned, depth),
                           depth)

exportsLoop(i, name, sourceFilePath, r, depth) ==
  IF i > Len(exports) \/ r.overflow THEN r
  ELSE LET exportNode == exports[i]
           matchingSpec == matchingExportSpec(exportNode, name)
       IN IF \/ ~exportResolvesTo(exportNode, sourceFilePath)
             \/ matchingSpec.local = NoName
          THEN exportsLoop(i + 1, name, sourceFilePath, r, depth)
          ELSE exportsLoop(i + 1, name, sourceFilePath,
                           recurse(reexportedNameOf(matchingSpec, name), exportNode.filePath,
                                   r, depth),
                           depth)

\* variant: the shared set records the file alone, not the file and the name
findExternalUsageAtKeyedByFile(name, sourceFilePath, r, depth) ==
  LET visitKey == <<sourceFilePath, "*">>
      entered == [r EXCEPT !.visited = @ \cup {visitKey}, !.expanded = Append(@, visitKey)]
  IN IF r.overflow THEN r
     ELSE IF depth > MaxDepth THEN [r EXCEPT !.overflow = TRUE]
     ELSE IF alreadyVisited(r.visited, visitKey) THEN [r EXCEPT !.hits = Append(@, visitKey)]
     ELSE exportsLoop(1, name, sourceFilePath,
                      importsLoop(1, name, sourceFilePath, entered, depth), depth)

findExternalUsageAt(name, sourceFilePath, r, depth) ==
  LET visitKey == <<sourceFilePath, name>>
      entered == [r EXCEPT !.visited = @ \cup {visitKey}, !.expanded = Append(@, visitKey)]
  IN IF r.overflow THEN r
     ELSE IF depth > MaxDepth THEN [r EXCEPT !.overflow = TRUE]
     ELSE IF alreadyVisited(r.visited, visitKey) THEN [r EXCEPT !.hits = Append(@, visitKey)]
     ELSE exportsLoop(1, name, sourceFilePath,
                      importsLoop(1, name, sourceFilePath, entered, depth), depth)

findExternalUsage(name, sourceFilePath, visited) ==
  findExternalUsageAt(name, sourceFilePath,
                      [usage |-> <<>>, visited |-> visited, expanded |-> <<>>, hits |-> <<>>,
                       overflow |-> FALSE],
                      1)

\* seq extended by the elements of more it does not include yet
RECURSIVE pushNew(_, _)
\* variant: every reported user is appended, seen before or not
pushAll(seq, more) == seq \o more

pushNew(seq, more) ==
  IF more = <<>> THEN seq
  ELSE pushNew(IF Includes(seq, Head(more)) THEN seq ELSE Append(seq, Head(more)), Tail(more))

Range(seq) == {seq[i] : i \in 1..Len(seq)}

\* t = [uuid, internal, external, calls]: the dependant under construction and
\* the record of the top-level findExternalUsage calls made for it
RECURSIVE traceExportedNames(_, _, _)
traceExportedNames(exportedNames, node, t) ==
  IF exportedNames = <<>> THEN t
  ELSE LET r == findExternalUsage(Head(exportedNames), node.filePath, {})
       IN traceExportedNames(Tail(exportedNames), node,
            [t EXCEPT !.external = @ \cup Range(r.usage),
                      !.calls = Append(@, [decl |-> node.uuid, name |-> Head(exportedNames),
                                           usage |-> r.usage, expanded |-> r.expanded,
                                           hits |-> r.hits, overflow |-> r.overflow])])

RECURSIVE traceNames(_, _, _)
traceNames(names, node, t) ==
  IF names = <<>> THEN t
  ELSE LET name == Head(names)
           withInternal ==
             [t EXCEPT !.internal = pushNew(@, findInternalUsage(node.uuid, name, node.filePath))]
       IN traceNames(Tail(names), node,
            IF node.isExported \/ isNameExported(name, node.filePath)
            THEN traceExportedNames(getExportedNamesForDeclaredName(name, node), node, withInternal)
            ELSE withInternal)

traceDeclaration(uuid, node) ==
  traceNames(node.declaredNames, node,
             [uuid |-> uuid, internal |-> <<>>, external |-> {}, calls |-> <<>>])

\* variant: the dependant is written into the declaration records themselves
TraceAllInPlace ==
  /\ phase = "indexing"
  /\ indexed > 0
  /\ results' = [i \in 1..Len(declarations) |->
                   traceDeclaration(declarations[i].uuid, declarations[i])]
  /\ declarations' = [i \in 1..Len(declarations) |->
                        [declarations[i] EXCEPT !.isExported = results'[i].external # {}]]
  /\ phase' = "traced"
  /\ UNCHANGED <<project, imports, exports, indexed>>

\* new DependencyTracer(indexer).traceAll(): one entry per declaration, in
\* the order of the declarations map.  An entry keeps, next to the dependant,
\* the record of its findExternalUsage calls; if one of them threw, traceAll
\* threw and returned nothing (phase "threw").
TraceAll ==
  /\ phase = "indexing"
  /\ indexed > 0
  /\ results' = [i \in 1..Len(declarations) |->
                   traceDeclaration(declarations[i].uuid, declarations[i])]
  /\ phase' = IF \E i \in 1..Len(results') :
                   \E j \in 1..Len(results'[i].calls) : results'[i].calls[j].overflow
              THEN "threw" ELSE "traced"
  /\ UNCHANGED <<project, imports, exports, declarations, indexed>>

\* variant: a declaration counts as orphaned when either list is empty
tallyEitherEmpty(summary, node) ==
  LET hasInternal == Len(node.internal) > 0
      hasExternal == node.external # {}
  IN [summary EXCEPT
        !.withInternalDependants = IF hasInternal THEN @ + 1 ELSE @,
        !.withExternalDependants = IF hasExternal THEN @ + 1 ELSE @,
        !.orphaned = IF ~hasInternal \/ ~hasExternal THEN @ + 1 ELSE @]

\* the body of getSummary's loop for one traced declaration
tally(summary, node) ==
  LET hasInternal == Len(node.internal) > 0
      hasExternal == node.external # {}
  IN [summary EXCEPT
        !.withInternalDependants = IF hasInternal THEN @ + 1 ELSE @,
        !.withExternalDependants = IF hasExternal THEN @ + 1 ELSE @,
        !.orphaned = IF ~hasInternal /\ ~hasExternal THEN @ + 1 ELSE @]

RECURSIVE tallyAll(_, _)
tallyAll(traced, summary) ==
  IF traced = <<>> THEN summary ELSE tallyAll(Tail(traced), tally(summary, Head(traced)))

\* getSummary(): traceAll again on the same indices, then the counts
getSummary ==
  LET traced == [i \in 1..Len(declarations) |->
                   traceDeclaration(declarations[i].uuid, declarations[i])]
  IN tallyAll(traced, [totalDeclarations |-> Len(traced), withInternalDependants |-> 0,
                       withExternalDependants |-> 0, orphaned |-> 0])

\* the users reported by the calls made so far
SeenBefore ==
  UNION {Range(results[i].internal) \cup results[i].external : i \in 1..Len(results)}

\* variant: a user reported by an earlier call is not reported again
TraceDeclarationSharingSeen(i) ==
  LET t == traceDeclaration(declarations[i].uuid, declarations[i])
      seen == SeenBefore
  IN /\ phase \in {"indexing", "traced"}
     /\ indexed > 0
     /\ i \in 1..Len(declarations)
     /\ Len(results) < MaxCalls
     /\ results' = Append(results,
                      [t EXCEPT !.internal = SelectSeq(@, LAMBDA u : u \notin seen),
                                !.external = @ \ seen])
     /\ phase' = "traced"
     /\ UNCHANGED <<project, imports, exports, declarations, indexed>>

\* one call tracer.traceDeclaration(uuid, node) for the i-th declaration, made
\* at any time once indexing is over, in any order and any number of times;
\* results lists the values returned, in the order of the calls
TraceDeclaration(i) ==
  LET t == traceDeclaration(declarations[i].uuid, declarations[i])
  IN /\ phase \in {"indexing", "traced"}
     /\ indexed > 0
     /\ i \in 1..Len(declarations)
     /\ Len(results) < MaxCalls
     /\ results' = Append(results, t)
     /\ phase' = IF \E j \in 1..Len(t.calls) : t.calls[j].overflow THEN "threw" ELSE "traced"
     /\ UNCHANGED <<project, imports, exports, declarations, indexed>>

Init ==
  /\ project = <<>>
  /\ imports = <<>>
  /\ exports = <<>>
  /\ declarations = <<>>
  /\ indexed = 0
  /\ phase = "indexing"
  /\ results = <<>>

(***************************************************************************)
(* Input files                                                             *)
(***************************************************************************)
\* export const n = 1
ExportConst(n) == ExportNamed(VarDecl(Id(n), NumLit), <<>>, NullNode)
\* export function n() { return m(); }
ExportFuncCalling(n, m) ==
  ExportNamed(FuncDecl(n, <<>>, <<Return(Call(Id(m), <<>>))>>), <<>>, NullNode)
\* import { i as l } from src
ImportNamed(i, l, src) == ImportDecl(<<ImportSpec(i, l)>>, src)
\* import * as l from src
ImportNamespace(l, src) == ImportDecl(<<ImportNsSpec(l)>>, src)
\* import l from src
ImportDefault(l, src) == ImportDecl(<<ImportDefaultSpec(l)>>, src)
\* const l = require(src)
RequireDefault(l, src) == VarDecl(Id(l), Call(Id("require"), <<Lit(src)>>))
\* const { i: l } = require(src)
RequireNamed(i, l, src) ==
  VarDecl(ObjPattern(<<Prop(Id(i), Id(l), i = l, FALSE)>>), Call(Id("require"), <<Lit(src)>>))
\* export { a as b } from src
ReExport(a, b, src) == ExportNamed(NullNode, <<ExportSpec(a, b)>>, Lit(src))
\* export * from src
ExportStar(src) == ExportAll(src, NullNode)
\* export { a as b }
ExportLocal(a, b) == ExportNamed(NullNode, <<ExportSpec(a, b)>>, NullNode)
\* function f() { const n = 1; console.log(n); }
FnShadowLocal(f, n) == FuncDecl(f, <<>>, <<VarDecl(Id(n), NumLit), Log(Id(n))>>)
\* function f() { return function inner(n) { console.log(n); }; }
FnShadowParam(f, n) == FuncDecl(f, <<>>, <<Return(FuncExpr(Id("inner"), <<Id(n)>>, <<Log(Id(n))>>))>>)
\* function f() { console.log(n); }
FnUse(f, n) == FuncDecl(f, <<>>, <<Log(Id(n))>>)

\* export const n = 1, m = 2
ExportConstPair(n, m) ==
  ExportNamed([type |-> "VariableDeclaration",
               declarations |-> <<Declarator(Id(n), NumLit), Declarator(Id(m), NumLit)>>],
              <<>>, NullNode)
\* function f() { console.log(n); console.log(m); console.log(n); }
FnUseBoth(f, n, m) == FuncDecl(f, <<>>, <<Log(Id(n)), Log(Id(m)), Log(Id(n))>>)

\* try { } catch (n) { body }
TryCatch(n, body) ==
  [type |-> "TryStatement", block |-> Block(<<>>),
   handler |-> [type |-> "CatchClause", param |-> Id(n), body |-> Block(body)]]

(***************************************************************************)
(* Projects with cycles and re-converging paths                            *)
(***************************************************************************)
\* the files a link statement of file f may name
Targets(f) == IF f = 1 THEN {2, NumFiles} ELSE {f - 1}

Standalone ==
  { <<ExportConst("x")>>,
    <<ExportConst("x"), FnShadowLocal("consumer", "x"), FnUse("actualConsumer", "x")>>,
    <<VarDecl(Id("x"), NumLit), Log(Id("x"))>>,
    <<ImportNamed("x", "x", BareSpec), Log(Id("x"))>>,
    <<ExportConstPair("x", "y"), FnUseBoth("f", "x", "y")>> }

Linked(src) ==
  { <<ExportConst("x"), ImportNamed("x", "y", src), Log(Id("y"))>>,
    <<ImportNamed("x", "y", src), ExportFuncCalling("x", "y")>>,
    <<ExportConst("x"), ExportStar(src)>>,
    <<ReExport("x", "x", src)>>,
    <<ExportStar(src)>>,
    <<ReExport("x", "x", src), ExportStar(src)>>,
    <<ReExport("x", "y", src), ReExport("x", "x", src)>>,
    <<ImportNamed("x", "x", src), Log(Id("x"))>>,
    <<ImportNamed("x", "x", src), ExportLocal("x", "x")>> }

\* the last alternative imports x from two modules, one before the other
Contents(f) ==
  Standalone \cup UNION {Linked(RelSpec(g)) : g \in Targets(f)}
    \cup (IF f < 3 THEN {}
          ELSE { <<ImportNamed("x", "x", RelSpec(f - 2)), ImportNamed("x", "y", RelSpec(f - 1)),
                   FnUseBoth("f", "x", "y")>> })

Next ==
  \/ \E file \in Files : \E body \in Contents(file) : IndexFile(file, body)
  \/ \E file \in Files : IndexFileParseError(file)
  \/ TraceAll

Spec == Init /\ [][Next]_vars

(***************************************************************************)
(* Re-export chains: an origin module, up to MaxChain forwarding modules,  *)
(* each naming the module before it, and a consumer at the end             *)
(***************************************************************************)
Origins ==
  { <<ExportConst("x")>>,
    <<ExportDefault(FuncDecl("x", <<>>, <<>>))>> }

Hops(src) ==
  { <<ReExport("x", "x", src)>>,
    <<ReExport("x", "y", src)>>,
    <<ReExport("default", "x", src)>>,
    <<ExportStar(src)>>,
    <<ImportNamed("x", "x", src), ExportLocal("x", "x")>>,
    <<ImportNamed("x", "x", src), ExportLocal("x", "y")>>,
    <<ImportNamed("x", "x", src), ExportDefault(Id("x"))>>,
    <<ImportDefault("x", src), ExportLocal("x", "y")>> }

Consumers(src) ==
  { <<ImportNamed("x", "x", src), Log(Id("x"))>>,
    <<ImportNamed("x", "y", src), Log(Id("y")), Log(Id("x"))>>,
    <<ImportNamed("y", "y", src), Log(Id("y"))>>,
    <<ImportNamed("y", "x", src), FnUse("f", "x"), FnUse("g", "y")>>,
    <<ImportNamespace("y", src), Log(Member(Id("y"), Id("z"))), Log(Id("x"))>>,
    <<RequireDefault("y", src), Log(Member(Id("y"), Id("z"))), Log(Id("x"))>>,
    <<ImportDefault("x", src), Log(Id("x"))>>,
    <<RequireNamed("x", "y", src), Log(Id("y"))>>,
    <<ImportNamed("x", "x", src), FnShadowParam("f", "x")>> }

ChainContents(f) ==
  IF f = 1 THEN Origins ELSE Hops(RelSpec(f - 1)) \cup Consumers(RelSpec(f - 1))

\* the file indexed last exports something, so a further module can name it
ChainOpen == indexed = 0 \/ \E i \in 1..Len(exports) : exports[i].filePath = indexed

NextChain ==
  \/ \E file \in 1..(MaxChain + 2) : \E body \in ChainContents(file) :
       ChainOpen /\ (file = MaxChain + 2 => body \in Consumers(RelSpec(file - 1)))
                 /\ IndexFile(file, body)
  \/ TraceAll

SpecChain == Init /\ [][NextChain]_vars

(***************************************************************************)
(* One module `export const x = 1; <fragment>`: the fragment binds a name  *)
(* in a nested scope and mentions x in some syntactic position             *)
(***************************************************************************)
Mentions(n) ==
  { Log(Id(n)),
    Log(Member(Id("obj"), Id(n))),
    Log(Index(Id("obj"), Id(n))),
    Log(ObjExpr(<<Prop(Id(n), NumLit, FALSE, FALSE)>>)),
    Log(ObjExpr(<<Prop(Id(n), Id(n), TRUE, FALSE)>>)),
    Log(ObjExpr(<<Prop(Id(n), NumLit, FALSE, TRUE)>>)) }

\* statements that bind name b in a scope enclosing the statement s
Binders(b, s) ==
  { FuncDecl("f", <<Id(b)>>, <<s>>),
    FuncDecl("f", <<ObjPattern(<<Prop(Id("k"), Id(b), FALSE, FALSE)>>)>>, <<s>>),
    FuncDecl("f", <<>>, <<VarDecl(Id(b), NumLit), s>>),
    FuncDecl("f", <<>>, <<s, FuncDecl(b, <<>>, <<>>)>>),
    FuncDecl("f", <<>>, <<Return(FuncExpr(Id(b), <<>>, <<s>>))>>),
    FuncDecl(b, <<>>, <<s>>),
    VarDecl(Id("g"), [type |-> "ArrowFunctionExpression", id |-> NullNode,
                      params |-> <<Id(b)>>, body |-> Block(<<s>>)]),
    TryCatch(b, <<s>>),
    Block(<<VarDecl(Id(b), NumLit), s>>),
    [type |-> "ForStatement", init |-> VarDecl(Id(b), NumLit), body |-> Block(<<s>>)],
    [type |-> "ForOfStatement", left |-> VarDecl(Id(b), NullNode), right |-> Id("arr"),
     body |-> Block(<<s>>)],
    [type |-> "ClassDeclaration", id |-> Id(b), superClass |-> NullNode,
     body |-> [type |-> "ClassBody",
               body |-> <<[type |-> "MethodDefinition", key |-> Id("m"),
                           value |-> FuncExpr(NullNode, <<>>, <<s>>)]>>]] }

\* function outer() { <binder of x around console.log(x)>; console.log(x); }
\* and the same with the two statements in the other order
Siblings ==
  UNION {{FuncDecl("outer", <<>>, <<inner, Log(Id("x"))>>),
          FuncDecl("outer", <<>>, <<Log(Id("x")), inner>>)} :
         inner \in Binders("x", Log(Id("x")))}

ScopeFragments ==
  Mentions("x") \cup UNION {Binders(b, s) : b \in {"x", "y"}, s \in Mentions("x")}
    \cup Siblings

NextScope ==
  \/ \E fragment \in ScopeFragments : IndexFile(1, <<ExportConst("x"), fragment>>)
  \/ TraceAll

SpecScope == Init /\ [][NextScope]_vars

(***************************************************************************)
(* One module `export const x = 1; narrow(<arguments>)`, or the same with   *)
(* a type assertion `<W>narrow(<arguments>)`: the arguments are up to       *)
(* MaxItems lexemes that hold the name as code, in a literal or in a comment*)
(***************************************************************************)
Lexeme(kind, chars) == [kind |-> kind, chars |-> chars]
CodeWord(c) == Lexeme("code", <<c>>)
StringLit(q, body) == Lexeme("string", <<q>> \o body \o <<q>>)
TemplateLit(body) == Lexeme("template", <<Backtick>> \o body \o <<Backtick>>)
BlockComment(body) == Lexeme("comment", <<"/", "*">> \o body \o <<"*", "/">>)
LineComment(body) == Lexeme("comment", <<"/", "/">> \o body \o <<Newline>>)
\* what separates two arguments: white space, a comma
Blank == Lexeme("blank", <<" ">>)
\* { k: v }
ObjectLit(k, v) == Lexeme("object", <<"{", k, ":", v, "}">>)

Lexemes ==
  { CodeWord("x"), CodeWord("a"),
    StringLit(SQ, <<"x">>), StringLit(DQ, <<"x">>), StringLit(DQ, <<"a", SQ, "x">>),
    TemplateLit(<<"x">>),
    BlockComment(<<"x">>), BlockComment(<<"a", SQ, "a">>),
    LineComment(<<"x">>),
    ObjectLit("x", "a") }

\* the argument each lexeme is parsed to (a comment leaves nothing in the tree)
ArgumentOf(lexeme) ==
  CASE lexeme.kind = "code" -> <<Id(lexeme.chars[1])>>
    [] lexeme.kind = "string" -> <<Lit(SubSeq(lexeme.chars, 2, Len(lexeme.chars) - 1))>>
    [] lexeme.kind = "object" ->
         <<ObjExpr(<<Prop(Id(lexeme.chars[2]), Id(lexeme.chars[4]), FALSE, FALSE)>>)>>
    [] lexeme.kind = "template" ->
         <<[type |-> "TemplateLiteral",
            quasis |-> <<[type |-> "TemplateElement",
                          value |-> SubSeq(lexeme.chars, 2, Len(lexeme.chars) - 1)]>>,
            expressions |-> <<>>]>>
    [] OTHER -> <<>>

RECURSIVE ArgumentsOf(_)
ArgumentsOf(items) ==
  IF items = <<>> THEN <<>> ELSE ArgumentOf(Head(items)) \o ArgumentsOf(Tail(items))

RECURSIVE Spaced(_)
Spaced(items) == IF items = <<>> THEN <<>> ELSE <<Head(items), Blank>> \o Spaced(Tail(items))

\* narrow(items) as a statement, with the type assertion `<W>` before it or not
Narrow(items, asserted) ==
  LET call == Call(Id("narrow"), ArgumentsOf(items))
      head == IF asserted THEN <<Lexeme("code", <<"<", "W", ">">>)>> ELSE <<>>
  IN [type |-> "ExpressionStatement",
      expression |-> IF asserted THEN [type |-> "TSTypeAssertion", expression |-> call]
                     ELSE call,
      text |-> head \o <<Lexeme("code", <<"n", "(">>)>> \o Spaced(items)
                 \o <<Lexeme("code", <<")">>)>>]

ItemLists == UNION {[1..n -> Lexemes] : n \in 1..MaxItems}

TextFragments == {Narrow(items, asserted) : items \in ItemLists, asserted \in BOOLEAN}

NextText ==
  \/ \E fragment \in TextFragments : IndexFile(1, <<ExportConst("x"), fragment>>)
  \/ TraceAll

SpecText == Init /\ [][NextText]_vars

(***************************************************************************)
(* Indexing alone: files made of one or two statements of every top-level  *)
(* form the indexer distinguishes, some of which fail to parse             *)
(***************************************************************************)
\* module.exports = v
ModuleExports(v) == ExprStmt(Assign(Member(Id("module"), Id("exports")), v))
\* exports.k = v
ExportsMember(k, v) == ExprStmt(Assign(Member(Id("exports"), Id(k)), v))

Statements ==
  { ImportNamed("x", "x", RelSpec(1)),
    ExportConst("x"),
    ExportLocal("x", "y"),
    ExportStar(RelSpec(1)),
    ExportDefault(FuncDecl("x", <<>>, <<>>)),
    ExportDefault(Id("x")),
    VarDecl(Id("x"), NumLit),
    VarDecl(ObjPattern(<<>>), Id("obj")),
    RequireDefault("x", RelSpec(1)),
    VarDecl(ObjPattern(<<Prop(Id("a"), Id("a"), TRUE, FALSE), Prop(Id("b"), Id("c"), FALSE, FALSE)>>),
            Call(Id("require"), <<Lit(RelSpec(1))>>)),
    FuncDecl("x", <<>>, <<>>),
    Log(Id("x")),
    ModuleExports(Id("x")),
    ExportsMember("k", Id("x")) }

IndexContents ==
  {<<s>> : s \in Statements}
    \cup { <<ImportNamed("x", "x", RelSpec(1)), ExportLocal("x", "x")>>,
           <<FuncDecl("x", <<>>, <<>>), ModuleExports(Id("x"))>> }

NextIndex ==
  \/ \E file \in Files : \E body \in IndexContents : IndexFile(file, body)
  \/ \E file \in Files : IndexFileParseError(file)

SpecIndex == Init /\ [][NextIndex]_vars

(***************************************************************************)
(* Declarations traced one call at a time, in any order, over a declaring  *)
(* module and a consuming module                                           *)
(***************************************************************************)
OrderContents(f) ==
  IF f = 1
  THEN { <<ExportConst("x"), ExportConst("y")>>,
         <<ExportConstPair("x", "y"), FnUseBoth("f", "x", "y")>>,
         <<ExportConst("x"), VarDecl(Id("y"), NumLit), FnUseBoth("f", "x", "y")>>,
         <<ImportNamed("x", "y", RelSpec(2)), ExportFuncCalling("x", "y")>>,
         <<VarDecl(Id("x"), NumLit), VarDecl(Id("y"), NumLit), ExportLocal("y", "x")>>,
         <<VarDecl(Id("x"), NumLit), ReExport("y", "x", RelSpec(2))>>,
         <<ExportConst("x"), ExportLocal("x", "y")>>,
         <<ExportDefault(FuncDecl("x", <<>>, <<>>)), ExportLocal("x", "y")>>,
         <<FuncDecl("x", <<>>, <<>>), ExportDefault(Id("x")), ExportLocal("x", "y")>> }
  ELSE { <<ImportNamed("x", "x", RelSpec(1)), ImportNamed("y", "y", RelSpec(1)),
           FnUseBoth("g", "x", "y")>>,
         <<ImportNamed("x", "y", RelSpec(1)), ExportFuncCalling("x", "y")>>,
         <<ReExport("x", "x", RelSpec(1)), ExportConst("y")>>,
         <<ExportConst("y"), ImportNamed("x", "x", RelSpec(1)), Log(Id("x"))>>,
         <<ImportNamed("y", "y", RelSpec(1)), Log(Id("y"))>>,
         <<ImportNamespace("n", RelSpec(1)), FnUse("g", "n"), FnUse("h", "n")>> }

NextOrder ==
  \/ \E file \in 1..2 : \E body \in OrderContents(file) : IndexFile(file, body)
  \/ \E i \in 1..Len(declarations) : TraceDeclaration(i)

SpecOrder == Init /\ [][NextOrder]_vars

(***************************************************************************)
(* Properties                                                              *)
(***************************************************************************)
Traced == phase = "traced"

\* the file of the declaration the i-th entry of results is for
FileOfResult(i) == project[results[i].uuid].filePath

\* the entries of results for declarations that declare name in file
ResultsFor(file, name) ==
  {i \in 1..Len(results) :
     /\ FileOfResult(i) = file
     /\ Includes(project[results[i].uuid].declaredNames, name)}

NoDuplicates(seq) == \A i, j \in 1..Len(seq) : seq[i] = seq[j] => i = j

\* some import or re-export-from statement outside file names file as its source
HasImporter(file) ==
  \/ \E i \in 1..Len(imports) :
       /\ imports[i].filePath # file
       /\ resolveModulePath(imports[i].importSource, imports[i].filePath) = file
  \/ \E i \in 1..Len(exports) :
       /\ exports[i].filePath # file
       /\ exports[i].exportSource # NoSpec
       /\ resolveModulePath(exports[i].exportSource, exports[i].filePath) = file

\* C1: after traceAll, external(D) holds no id of a top-level node of D's
\* own file (so never D's own id), whatever the import/re-export graph.
ExternalExcludesOwnFile ==
  Traced => \A i \in 1..Len(results) :
              \A u \in results[i].external : project[u].filePath # FileOfResult(i)

\* C2: after traceAll, internal(D) holds only ids of top-level nodes of D's
\* own file, and never D's own id.
InternalOwnFileNotSelf ==
  Traced => \A i \in 1..Len(results) :
              \A u \in Range(results[i].internal) :
                /\ u \in 1..Len(project)
                /\ project[u].filePath = FileOfResult(i)
                /\ u # results[i].uuid

\* a traced declaration with an internal consumer, while a node of another
\* file mentions the same name
InternalWitness ==
  /\ Traced
  /\ \E i \in 1..Len(results) :
       /\ results[i].internal # <<>>
       /\ \E u \in 1..Len(project) :
            /\ project[u].filePath # FileOfResult(i)
            /\ isIdentifierUsedInCode(project[u].raw, project[results[i].uuid].declaredNames[1])

\* C3: a declaration whose file no import and no re-export-from statement of
\* another file resolves to has an empty external set once traced, and
\* tracing it raises no error.
NoImporterNoExternal ==
  phase # "indexing" =>
    \A i \in 1..Len(results) :
      ~HasImporter(FileOfResult(i)) =>
        /\ results[i].external = {}
        /\ \A c \in 1..Len(results[i].calls) : ~results[i].calls[c].overflow

\* an exported declaration without importer was traced (findExternalUsage ran
\* for it) while another file imports the same name from elsewhere and uses it
OrphanWitness ==
  /\ Traced
  /\ \E i \in 1..Len(results) :
       /\ ~HasImporter(FileOfResult(i))
       /\ results[i].calls # <<>>
       /\ results[i].external = {}
       /\ \E u \in 1..Len(project) :
            /\ project[u].filePath # FileOfResult(i)
            /\ project[u].importedNames = <<>>
            /\ isIdentifierUsedInCode(project[u].raw, results[i].calls[1].name)

\* C4: findExternalUsage, hence traceAll, returns without throwing on every
\* project, circular and re-converging ones included, and a top-level call
\* expands each (file, name) pair at most once.
TraceTerminates ==
  /\ phase # "threw"
  /\ \A i \in 1..Len(results) :
       \A c \in 1..Len(results[i].calls) :
         /\ ~results[i].calls[c].overflow
         /\ NoDuplicates(results[i].calls[c].expanded)

\* a trace whose recursion came back to the pair it started from (a circular
\* re-export) and one that reached another pair twice (a re-converging graph)
CycleWitness ==
  /\ Traced
  /\ \E i \in 1..Len(results) :
       \E c \in 1..Len(results[i].calls) :
         LET call == results[i].calls[c]
         IN /\ Includes(call.hits, <<FileOfResult(i), call.name>>)
            /\ Len(call.expanded) >= 2

\* -------- re-export chains --------
\* the statements of file f, in order
BodyOf(f) ==
  LET ids == fileToNodes(f)
  IN [i \in 1..Len(ids) |-> project[ids[i]].raw]

ChainNames == {"x", "y", "default"}

\* what the module at the start of the chain exports its declaration as
OriginName == IF BodyOf(1) = <<ExportConst("x")>> THEN "x" ELSE "default"

\* usage recorded for the declaration of the module at the start of the chain
OriginExternal ==
  UNION {results[i].external : i \in {j \in 1..Len(results) : FileOfResult(j) = 1}}

PlainHop(f) == BodyOf(f) = <<ReExport("x", "x", RelSpec(f - 1))>>
StarHop(f) == BodyOf(f) = <<ExportStar(RelSpec(f - 1))>>
NamedHop(f) == \E a, b \in ChainNames : BodyOf(f) = <<ReExport(a, b, RelSpec(f - 1))>>
RenamingHop(f) ==
  \E a, b \in ChainNames : a # b /\ BodyOf(f) = <<ReExport(a, b, RelSpec(f - 1))>>

\* the name under which module f offers the declaration of module 1 by the
\* rules of the module system as the tracer reads them; NoName if it does not
RECURSIVE NameAt(_)
NameAt(f) ==
  IF f = 1 THEN OriginName
  ELSE LET prev == NameAt(f - 1)
           src == RelSpec(f - 1)
       IN IF prev = NoName THEN NoName
          ELSE IF StarHop(f) THEN prev
          ELSE IF \E b \in ChainNames : BodyOf(f) = <<ReExport(prev, b, src)>>
            THEN CHOOSE b \in ChainNames : BodyOf(f) = <<ReExport(prev, b, src)>>
          ELSE IF BodyOf(f) = <<ImportNamed(prev, prev, src), ExportLocal(prev, prev)>>
            THEN prev
          ELSE NoName

\* the nodes of file f that read the binding l
RefNodes(f, l) ==
  {u \in Range(fileToNodes(f)) :
     project[u].raw \in {Log(Id(l)), Log(Member(Id(l), Id("z"))), FnUse("f", l), FnUse("g", l)}}

\* file f starts with `import { i as l }` from the module before it
ImportsNamed(f, i, l) ==
  /\ f >= 2
  /\ BodyOf(f) # <<>>
  /\ BodyOf(f)[1] = ImportNamed(i, l, RelSpec(f - 1))
  /\ BodyOf(f) # <<ImportNamed(i, l, RelSpec(f - 1)), ExportLocal(i, l)>>

\* level0 exports x, every module after it up to the consumer is
\* `export { x } from` the one before, the consumer (the last file) imports x
PlainChain ==
  /\ indexed >= 3
  /\ BodyOf(1) = <<ExportConst("x")>>
  /\ \A f \in 2..(indexed - 1) : PlainHop(f)
  /\ \E l \in ChainNames : ImportsNamed(indexed, "x", l)

\* C5: behind a chain of N >= 1 plain re-exports of x, the trace ends
\* normally and the nodes of the consumer that reference its import of x are
\* in external of the declaration of x.
PlainChainReachesConsumer ==
  (phase # "indexing" /\ PlainChain) =>
    /\ Traced
    /\ \A l \in ChainNames :
         ImportsNamed(indexed, "x", l) => RefNodes(indexed, l) \subseteq OriginExternal

\* the longest chain the bounds allow, with a consumer node that references x
PlainChainWitness ==
  /\ Traced
  /\ PlainChain
  /\ indexed = MaxChain + 2
  /\ RefNodes(indexed, "x") # {}
  /\ RefNodes(indexed, "x") \subseteq OriginExternal

\* every module between the first and the consumer is a named
\* re-export-from, one of them at least renames, and the declaration arrives
\* at the module before the consumer under some name
RenamingChain ==
  /\ indexed >= 3
  /\ \A f \in 2..(indexed - 1) : NamedHop(f)
  /\ \E f \in 2..(indexed - 1) : RenamingHop(f)
  /\ NameAt(indexed - 1) # NoName

\* C6: behind re-export-from statements that rename (`export { a as b } from`,
\* `export { default as Named } from`), the trace goes on under the alias: a
\* consumer that imports the alias of the last hop is in external of the
\* original declaration.
RenamedReexportReachesConsumer ==
  (Traced /\ RenamingChain) =>
    \A l \in ChainNames :
      ImportsNamed(indexed, NameAt(indexed - 1), l) =>
        RefNodes(indexed, l) \subseteq OriginExternal

\* x renamed to y on the way, consumer imports y and reads it
RenameWitness ==
  /\ Traced
  /\ RenamingChain
  /\ OriginName = "x"
  /\ NameAt(indexed - 1) = "y"
  /\ ImportsNamed(indexed, "y", "y")
  /\ RefNodes(indexed, "y") # {}
  /\ RefNodes(indexed, "y") \subseteq OriginExternal

\* C7: an aliased named import `import { i as l }` of a name the imported
\* module offers is searched under l: every other node of the consumer that
\* references l is in external of the declaration.
AliasedImportSearchedUnderAlias ==
  Traced =>
    \A i, l \in ChainNames :
      (/\ i # l
       /\ ImportsNamed(indexed, i, l)
       /\ NameAt(indexed - 1) = i)
      => RefNodes(indexed, l) \subseteq OriginExternal

\* `export const x` imported directly as y; the consumer's node that reads y is
\* in external(x)
AliasWitness ==
  /\ Traced
  /\ indexed = 2
  /\ BodyOf(1) = <<ExportConst("x")>>
  /\ ImportsNamed(2, "x", "y")
  /\ RefNodes(2, "y") # {}
  /\ RefNodes(2, "y") \subseteq OriginExternal

\* file 2 binds the whole of module 1 to l
ImportsWhole(l) ==
  /\ indexed = 2
  /\ BodyOf(2) # <<>>
  /\ BodyOf(2)[1] \in {ImportNamespace(l, RelSpec(1)), RequireDefault(l, RelSpec(1))}

\* C8: `import * as NS from m` and `const NS = require(m)` match every traced
\* name: each other node of the consumer that references NS is in external(D)
\* of every exported declaration D of m.
WholeModuleImportMatchesAll ==
  Traced =>
    \A l \in ChainNames :
      ImportsWhole(l) =>
        \A r \in 1..Len(results) :
          FileOfResult(r) = 1 => RefNodes(2, l) \subseteq results[r].external

NamespaceWitness ==
  /\ Traced
  /\ ImportsWhole("y")
  /\ BodyOf(2)[1] = ImportNamespace("y", RelSpec(1))
  /\ RefNodes(2, "y") # {}
  /\ RefNodes(2, "y") \subseteq OriginExternal

\* every module between the first and the consumer is `export * from`
StarChain ==
  /\ indexed >= 3
  /\ \A f \in 2..(indexed - 1) : StarHop(f)

\* C9: `export * from` forwards the traced name unchanged: a consumer that
\* imports the name from the barrel and references it is in external of the
\* declaration of that name.
ExportStarForwards ==
  (Traced /\ StarChain) =>
    /\ \A l \in ChainNames :
         ImportsNamed(indexed, OriginName, l) => RefNodes(indexed, l) \subseteq OriginExternal
    /\ \A l \in ChainNames :
         (OriginName = "default" /\ BodyOf(indexed)[1] = ImportDefault(l, RelSpec(indexed - 1)))
           => RefNodes(indexed, l) \subseteq OriginExternal

StarWitness ==
  /\ Traced
  /\ StarChain
  /\ OriginName = "x"
  /\ ImportsNamed(indexed, "x", "x")
  /\ RefNodes(indexed, "x") # {}
  /\ RefNodes(indexed, "x") \subseteq OriginExternal

\* -------- shadowing --------
FunctionTypes == {"FunctionDeclaration", "FunctionExpression", "ArrowFunctionExpression"}
ClassTypes == {"ClassDeclaration", "ClassExpression"}
BlockTypes == {"BlockStatement", "ForStatement", "ForInStatement", "ForOfStatement"}

\* the names a binding pattern introduces
RECURSIVE Introduces(_, _)
Introduces(pattern, name) ==
  CASE pattern.type = "Identifier" -> pattern.name = name
    [] pattern.type = "ObjectPattern" ->
         \E i \in 1..Len(pattern.properties) : Introduces(pattern.properties[i].value, name)
    [] OTHER -> FALSE

\* stmt is a var/let/const that declares name
DeclaresVariable(stmt, name) ==
  /\ stmt.type = "VariableDeclaration"
  /\ \E i \in 1..Len(stmt.declarations) : Introduces(stmt.declarations[i].id, name)

\* node is a scope that binds name: by a function or catch parameter, as the
\* own name of a named function expression or of a class, or by a
\* var/let/const/function declaration directly in the block or loop header
BindsName(node, name) ==
  \/ /\ node.type \in FunctionTypes
     /\ \E i \in 1..Len(node.params) : Introduces(node.params[i], name)
  \/ node.type = "FunctionExpression" /\ node.id = Id(name)
  \/ node.type \in ClassTypes /\ node.id = Id(name)
  \/ node.type = "CatchClause" /\ Introduces(node.param, name)
  \/ /\ node.type = "BlockStatement"
     /\ \E i \in 1..Len(node.body) :
          \/ DeclaresVariable(node.body[i], name)
          \/ node.body[i].type = "FunctionDeclaration" /\ node.body[i].id = Id(name)
  \/ node.type = "ForStatement" /\ DeclaresVariable(node.init, name)
  \/ node.type \in {"ForInStatement", "ForOfStatement"} /\ DeclaresVariable(node.left, name)

\* some identifier `name` in node lies inside no scope of node that binds name
RECURSIVE OccursUnbound(_, _)
OccursUnbound(node, name) ==
  IF node = Id(name) THEN TRUE
  ELSE IF BindsName(node, name) THEN FALSE
  ELSE \E i \in 1..Len(ChildrenOf(node)) : OccursUnbound(ChildrenOf(node)[i][2], name)

\* the fragment indexed next to `export const x`
Fragment == project[2].raw

OuterBody == IF Fragment.type = "FunctionDeclaration" THEN Fragment.body.body ELSE <<>>

\* the fragment is `function outer() { a; b }`, one of a and b is a plain
\* reference to x, the other a nested scope that binds x, and the body of
\* outer does not itself declare x
SiblingOfShadow ==
  /\ Len(project) = 2
  /\ Fragment.type = "FunctionDeclaration"
  /\ Fragment.id = Id("outer")
  /\ Len(OuterBody) = 2
  /\ \E i \in 1..2 : OuterBody[i] = Log(Id("x"))
  /\ ~BindsName(Fragment.body, "x")
  /\ \A i \in 1..2 : ~(OuterBody[i].type = "ClassDeclaration" /\ OuterBody[i].id = Id("x"))

\* C11: shadowing stays inside the scope that introduces it: a reference to
\* the name next to a nested scope that rebinds it, before it or after it,
\* is still counted, so the node is in internal of the module's declaration.
ShadowDoesNotLeak ==
  (Traced /\ SiblingOfShadow) => Includes(results[1].internal, 2)

\* `function outer() { function f(x) { console.log(x) }  console.log(x) }`:
\* the reference after the nested scope makes outer a user of x
SiblingWitness ==
  /\ Traced
  /\ SiblingOfShadow
  /\ OuterBody = <<FuncDecl("f", <<Id("x")>>, <<Log(Id("x"))>>), Log(Id("x"))>>
  /\ results[1].uuid = 1
  /\ Includes(results[1].internal, 2)

\* -------- strings and comments --------
\* the lexemes of the fragment, when it is kept with its text
FragmentText == IF Len(project) = 2 /\ HasText(Fragment) THEN Fragment.text ELSE <<>>

\* the name x occurs in the fragment, and only in string literals, template
\* text and comments
OnlyInLiterals ==
  /\ \E i \in 1..Len(FragmentText) : Includes(FragmentText[i].chars, "x")
  /\ \A i \in 1..Len(FragmentText) :
       Includes(FragmentText[i].chars, "x")
         => FragmentText[i].kind \in {"string", "template", "comment"}

\* C12: a name that occurs in a fragment only inside string literals,
\* template text and comments is not a usage: isIdentifierUsedInCode is false
\* for the fragment and internal of the declaration stays empty.
LiteralsNeverUsage ==
  (Traced /\ OnlyInLiterals) =>
    /\ ~isIdentifierUsedInCode(Fragment, "x")
    /\ results[1].internal = <<>>

\* -------- property keys and member properties --------
\* the fragment is the mention s of x, bare or inside a scope that binds y
FragmentMentions(s) == Len(project) = 2 /\ Fragment \in ({s} \cup Binders("y", s))

KeyMention == Log(ObjExpr(<<Prop(Id("x"), NumLit, FALSE, FALSE)>>))
MemberMention == Log(Member(Id("obj"), Id("x")))
ShorthandMention == Log(ObjExpr(<<Prop(Id("x"), Id("x"), TRUE, FALSE)>>))
ComputedMemberMention == Log(Index(Id("obj"), Id("x")))

\* C13: `{ x: v }` and `obj.x` are not usages of x; `{ x }` and `obj[x]` are.
KeysAndMembers ==
  Traced =>
    /\ (FragmentMentions(KeyMention) \/ FragmentMentions(MemberMention))
         => ~Includes(results[1].internal, 2)
    /\ (FragmentMentions(ShorthandMention) \/ FragmentMentions(ComputedMemberMention))
         => Includes(results[1].internal, 2)

\* `console.log(obj.x)` inside `function f(y) { }`, next to `export const x`:
\* traced and not a user of x
MemberWitness ==
  /\ Traced
  /\ Fragment = FuncDecl("f", <<Id("y")>>, <<MemberMention>>)
  /\ results[1].uuid = 1
  /\ results[1].internal = <<>>

\* -------- the four indices --------
\* the record index holds for the id of its i-th entry is the one project
\* holds for that id
SameAsProject(index) ==
  \A i \in 1..Len(index) :
    /\ index[i].uuid \in 1..Len(project)
    /\ project[index[i].uuid] = index[i]

\* C14: every id in imports, exports or declarations is in project too, with
\* the same record.
IndicesWithinProject ==
  /\ SameAsProject(imports)
  /\ SameAsProject(exports)
  /\ SameAsProject(declarations)
  /\ \A u \in 1..Len(project) : project[u].uuid = u

\* all files read; the second and third file put nodes in all three indices
IndicesWitness ==
  /\ indexed = NumFiles
  /\ \E i \in 1..Len(imports) : imports[i].filePath > 1
  /\ \E i \in 1..Len(exports) : exports[i].filePath > 1
  /\ \E i \in 1..Len(declarations) : declarations[i].filePath > 1

\* -------- what the declarations index holds --------
\* the statement is `module.exports = ...` or `exports.K = ...`
CommonJsExportAssignment(stmt) ==
  /\ stmt.type = "ExpressionStatement"
  /\ stmt.expression.type = "AssignmentExpression"
  /\ stmt.expression.left.type = "MemberExpression"
  /\ \/ /\ stmt.expression.left.object = Id("module")
        /\ stmt.expression.left.property = Id("exports")
     \/ stmt.expression.left.object = Id("exports")

InDeclarations(u) == \E i \in 1..Len(declarations) : declarations[i].uuid = u

\* C15: declarations holds exactly the nodes that declare a name or are
\* CommonJS export assignments.
DeclarationsExact ==
  \A u \in 1..Len(project) :
    InDeclarations(u) <=> \/ Len(project[u].declaredNames) > 0
                          \/ CommonJsExportAssignment(project[u].raw)

\* -------- files that fail to parse --------
\* file f was read and left no node in project
Skipped(f) == f <= indexed /\ \A u \in 1..Len(project) : project[u].filePath # f

NoneOf(index, f) == \A i \in 1..Len(index) : index[i].filePath # f

\* the nodes of project, in order, that come from file f
NodesOf(f) == SelectSeq(project, LAMBDA n : n.filePath = f)

\* C18: a file that fails to parse does not stop indexAll and leaves nothing
\* in any index; every other file read so far has its statements in project.
ParseFailureSkipsFile ==
  \A f \in Files :
    Skipped(f) =>
      /\ phase = "indexing"
      /\ NoneOf(imports, f) /\ NoneOf(exports, f) /\ NoneOf(declarations, f)
      /\ \A g \in 1..indexed :
           \/ Skipped(g)
           \/ \E body \in IndexContents :
                /\ Len(NodesOf(g)) = Len(body)
                /\ \A i \in 1..Len(body) : NodesOf(g)[i].raw = body[i]

\* the second file failed to parse; the first and the third are indexed
ParseFailureWitness ==
  /\ indexed = NumFiles
  /\ Skipped(2)
  /\ \A f \in Files \ {2} : NodesOf(f) # <<>>
  /\ Len(exports) > 0

\* -------- one entry per consumer --------
\* C16: a consumer appears at most once in internal and at most once in
\* external, however many of the declared names it uses, however often, and
\* along however many paths it is reached.
ConsumersListedOnce ==
  Traced =>
    \A i \in 1..Len(results) :
      /\ NoDuplicates(results[i].internal)
      /\ results[i].external =
           UNION {Range(results[i].calls[c].usage) : c \in 1..Len(results[i].calls)}
      /\ results[i].external \subseteq 1..Len(project)

\* `export const x = 1, y = 2` is used by a function of its file that names x
\* twice and y once, and by a statement of another file: one entry each
ListedOnceWitness ==
  /\ Traced
  /\ \E i \in 1..Len(results) :
       LET d == project[results[i].uuid]
       IN /\ d.raw = ExportConstPair("x", "y")
          /\ results[i].internal = <<d.uuid + 1>>
          /\ project[d.uuid + 1].raw = FnUseBoth("f", "x", "y")
          /\ results[i].external # {}

\* -------- tracing only reads --------
\* C17: a step that produces tracing results leaves project, imports, exports
\* and declarations, and every record in them, as they were.
TracingLeavesIndices ==
  [][(results' # results \/ phase' # phase)
       => UNCHANGED <<project, imports, exports, declarations>>]_vars

\* traced, with users found in the file and outside it, over indices that
\* still agree with project
ReadOnlyWitness ==
  /\ Traced
  /\ Len(results) = Len(declarations)
  /\ \E i \in 1..Len(results) : results[i].internal # <<>> /\ results[i].external # {}
  /\ SameAsProject(declarations) /\ SameAsProject(imports) /\ SameAsProject(exports)

ExportedFromOwnFile(name, d) ==
  \/ d.isExported
  \/ \E i \in 1..Len(exports) :
       /\ exports[i].filePath = d.filePath
       /\ exports[i].exportSource = NoSpec
       /\ \E k \in 1..Len(exports[i].exportedNames) :
            exports[i].exportedNames[k].local = name

\* C20: a declaration none of whose names is exported, by its own node or by
\* a separate export of that local name, has no external users, even if some
\* export of the file uses the same string as an alias or re-exported name.
ExternalOnlyIfExported ==
  \A i \in 1..Len(results) :
    LET d == project[results[i].uuid]
    IN (\A k \in 1..Len(d.declaredNames) : ~ExportedFromOwnFile(d.declaredNames[k], d))
         => results[i].external = {}

\* -------- CommonJS statements --------
InImports(u) == \E i \in 1..Len(imports) : imports[i].uuid = u
InExports(u) == \E i \in 1..Len(exports) : exports[i].uuid = u

\* the statement is `const <pattern> = require(<literal>)`
RequireStatement(stmt) ==
  /\ stmt.type = "VariableDeclaration"
  /\ Len(stmt.declarations) = 1
  /\ stmt.declarations[1].init.type = "CallExpression"
  /\ stmt.declarations[1].init.callee = Id("require")

\* C21: a `require` declaration is an import and a declaration, with one
\* require-default specifier for an identifier and one require-named
\* specifier per key of an object pattern; a CommonJS export assignment is
\* an export.
CommonJsIndexed ==
  \A u \in 1..Len(project) :
    LET n == project[u]
        pat == n.raw.declarations[1].id
    IN /\ RequireStatement(n.raw) =>
            /\ InImports(u) /\ InDeclarations(u)
            /\ pat.type = "Identifier" =>
                 n.importedNames =
                   <<[type |-> "require-default", local |-> pat.name, imported |-> "default"]>>
            /\ pat.type = "ObjectPattern" =>
                 /\ Len(n.importedNames) = Len(pat.properties)
                 /\ \A k \in 1..Len(pat.properties) :
                      n.importedNames[k] =
                        [type |-> "require-named", local |-> pat.properties[k].value.name,
                         imported |-> pat.properties[k].key.name]
       /\ CommonJsExportAssignment(n.raw) => InExports(u)

\* `const x = require(...)`, `const { a, b: c } = require(...)` and
\* `module.exports = x` have each been indexed
CommonJsWitness ==
  /\ indexed = NumFiles
  /\ \E u \in 1..Len(project) :
       /\ RequireStatement(project[u].raw)
       /\ project[u].raw.declarations[1].id.type = "Identifier"
       /\ InImports(u)
  /\ \E u \in 1..Len(project) :
       /\ RequireStatement(project[u].raw)
       /\ Len(project[u].importedNames) = 2
       /\ InDeclarations(u)
  /\ \E u \in 1..Len(project) : project[u].raw = ModuleExports(Id("x")) /\ InExports(u)

\* -------- a declaration exported under several aliases --------
\* modules that export their declaration x a second time as y
TwiceExported ==
  { <<ExportConst("x"), ExportLocal("x", "y")>>,
    <<ExportDefault(FuncDecl("x", <<>>, <<>>)), ExportLocal("x", "y")>> }

\* C22: a consumer that imports the declaration under any one of its exported
\* aliases is in external: here x is also exported as y, and the consumer is
\* `import { y } from` the module followed by `console.log(y)`.
EveryAliasTraced ==
  \A i \in 1..Len(results) :
    ( /\ indexed = 2
      /\ BodyOf(1) \in TwiceExported
      /\ BodyOf(2) = <<ImportNamed("y", "y", RelSpec(1)), Log(Id("y"))>>
      /\ FileOfResult(i) = 1 )
    => Len(project) \in results[i].external

\* -------- the list findExternalUsage returns --------
\* C23: the list returned by a findExternalUsage call holds no id twice, also
\* when a consumer is reached along two re-export paths.
ExternalUsageListedOnce ==
  \A i \in 1..Len(results) :
    \A c \in 1..Len(results[i].calls) : NoDuplicates(results[i].calls[c].usage)

\* -------- forwarding barrels --------
\* module f imports the name a of the module before it under the local name l
ImportsAs(f, a, l) ==
  /\ BodyOf(f) # <<>>
  /\ \/ BodyOf(f)[1] = ImportNamed(a, l, RelSpec(f - 1))
     \/ a = "default" /\ BodyOf(f)[1] = ImportDefault(l, RelSpec(f - 1))

\* module f is two statements: an import of a under l, then `export { l as b }`
\* or, for b = default, `export default l`
Forwards(f, a, b) ==
  \E l \in ChainNames :
    /\ Len(BodyOf(f)) = 2
    /\ ImportsAs(f, a, l)
    /\ \/ BodyOf(f)[2] = ExportLocal(l, b)
       \/ b = "default" /\ BodyOf(f)[2] = ExportDefault(Id(l))

\* the name under which module f forwards the declaration of module 1 when
\* every module from 2 to f is such a barrel; NoName otherwise
RECURSIVE ForwardedName(_)
ForwardedName(f) ==
  IF f = 1 THEN OriginName
  ELSE LET prev == ForwardedName(f - 1)
       IN IF prev # NoName /\ \E b \in ChainNames : Forwards(f, prev, b)
          THEN CHOOSE b \in ChainNames : Forwards(f, prev, b)
          ELSE NoName

\* C24: when every module between the declaring module and the consumer
\* imports the name and exports the local binding by an export statement
\* without source, the nodes of the consumer that use its import are in
\* external of the declaration.
BarrelsAreFollowed ==
  Traced =>
    \A l \in ChainNames :
      ( /\ indexed >= 3
        /\ ForwardedName(indexed - 1) # NoName
        /\ ImportsAs(indexed, ForwardedName(indexed - 1), l) )
      => RefNodes(indexed, l) \subseteq OriginExternal

\* x is forwarded as default by `import { x }; export default x`, then as y
\* by `import x from; export { x as y }`; the consumer imports y and uses it
BarrelWitness ==
  /\ Traced
  /\ indexed = 4
  /\ Forwards(2, "x", "default")
  /\ Forwards(3, "default", "y")
  /\ ImportsAs(4, "y", "y")
  /\ RefNodes(4, "y") # {}
  /\ RefNodes(4, "y") \subseteq OriginExternal

\* -------- import specifiers match by kind --------
\* C25: a named or require-named specifier is matched only by its imported
\* name and a default specifier only by the name default; so after
\* `export const x`, the file `import x from; console.log(x)` is no consumer.
SpecifiersMatchByKind ==
  /\ \A i \in 1..Len(imports) : \A name \in ChainNames :
       LET m == findMatchingImportSpecifier(imports[i], name)
       IN m # NoMatch =>
            /\ m.type \in {"named", "require-named"} => m.imported = name
            /\ m.type = "default" => name = "default"
  /\ ( /\ Traced
       /\ indexed = 2
       /\ BodyOf(1) = <<ExportConst("x")>>
       /\ BodyOf(2) = <<ImportDefault("x", RelSpec(1)), Log(Id("x"))>> )
     => OriginExternal = {}

\* `export const x` followed by a module that default-imports x and uses it:
\* traced, nothing external; the default specifier does match default
DefaultImportWitness ==
  /\ Traced
  /\ indexed = 2
  /\ BodyOf(1) = <<ExportConst("x")>>
  /\ BodyOf(2) = <<ImportDefault("x", RelSpec(1)), Log(Id("x"))>>
  /\ OriginExternal = {}
  /\ findMatchingImportSpecifier(imports[1], "default") # NoMatch
  /\ findMatchingImportSpecifier(imports[1], "x") = NoMatch

\* -------- fragments that do not parse --------
\* the fragment does not parse, and x occurs in it only as the key of
\* `{ x: a }`
UnparseableKeyOnly ==
  /\ FragmentText # <<>>
  /\ parseThrows(Fragment, isJsxOf(Fragment))
  /\ \E i \in 1..Len(FragmentText) : Includes(FragmentText[i].chars, "x")
  /\ \A i \in 1..Len(FragmentText) :
       Includes(FragmentText[i].chars, "x") => FragmentText[i] = ObjectLit("x", "a")

\* C26: for a fragment that cannot be parsed the lexical fallback also blanks
\* object keys, so a name that occurs only as the key of `{ name: v }` is not
\* reported as used.
UnparseableKeyNotUsage ==
  UnparseableKeyOnly =>
    /\ ~isIdentifierUsedInCode(Fragment, "x")
    /\ Traced => results[1].internal = <<>>

\* -------- the summary --------
WithInternal == {i \in 1..Len(results) : results[i].internal # <<>>}
WithExternal == {i \in 1..Len(results) : results[i].external # {}}

\* C27: getSummary agrees with traceAll: the total is the number of
\* declarations, the two counts are the declarations with internal resp.
\* external users, orphaned those with neither; orphaned plus the
\* declarations with some user is the total.
SummaryAgreesWithTrace ==
  Traced =>
    \A summary \in {getSummary} :
      /\ summary.totalDeclarations = Len(declarations)
      /\ summary.withInternalDependants = Cardinality(WithInternal)
      /\ summary.withExternalDependants = Cardinality(WithExternal)
      /\ summary.orphaned = Len(results) - Cardinality(WithInternal \cup WithExternal)
      /\ summary.orphaned + Cardinality(WithInternal \cup WithExternal)
           = summary.totalDeclarations

\* a project with an orphaned declaration, one with internal users only and
\* one with both kinds
SummaryWitness ==
  /\ Traced
  /\ (WithInternal \ WithExternal) # {}
  /\ (WithInternal \cap WithExternal) # {}
  /\ \E summary \in {getSummary} :
       summary.orphaned > 0 /\ summary.withExternalDependants > 0

\* -------- consumers come from importers --------
\* file g has an import statement whose source resolves into the set R
ImportsFrom(g, R) ==
  \E i \in 1..Len(imports) :
    /\ imports[i].filePath = g
    /\ resolveModulePath(imports[i].importSource, g) \in R

\* file g forwards from R: it re-exports from a module of R, or it imports
\* from one and has an export statement without source
ForwardsFrom(g, R) ==
  \/ \E i \in 1..Len(exports) :
       /\ exports[i].filePath = g
       /\ exports[i].exportSource # NoSpec
       /\ resolveModulePath(exports[i].exportSource, g) \in R
  \/ /\ ImportsFrom(g, R)
     /\ \E i \in 1..Len(exports) : exports[i].filePath = g /\ exports[i].exportSource = NoSpec

\* the modules reachable from those of R by forwarding
RECURSIVE ReachableFrom(_)
ReachableFrom(R) ==
  LET more == R \cup {g \in 1..indexed : ForwardsFrom(g, R)}
  IN IF more = R THEN R ELSE ReachableFrom(more)

\* C28: every node in external(D) is in a file that imports from D's module
\* or from a module that forwards it; declarations of the same name in
\* different modules therefore get the importers of their own module only.
ExternalOnlyFromImporters ==
  Traced =>
    \A i \in 1..Len(results) : \A u \in results[i].external :
      ImportsFrom(project[u].filePath, ReachableFrom({FileOfResult(i)}))

\* modules 1 and 2 both declare `export const x`; module 3 imports x from
\* module 2 and uses it: a consumer of the second declaration only
SameNameWitness ==
  /\ Traced
  /\ indexed = 3
  /\ BodyOf(1) = <<ExportConst("x")>>
  /\ BodyOf(2) = <<ExportConst("x")>>
  /\ BodyOf(3) = <<ImportNamed("x", "x", RelSpec(2)), Log(Id("x"))>>
  /\ results[1].external = {}
  /\ results[2].external = {4}

\* -------- one shared visited set against one copy per branch --------
\* the nodes of the importing file that use the matched local name
ConsumersThrough(importNode, name) ==
  {u \in Range(fileToNodes(importNode.filePath)) :
     /\ u # importNode.uuid
     /\ isIdentifierUsedInCode(project[u].raw,
                               findMatchingImportSpecifier(importNode, name).local)}

\* the traversal in which every branch continues with its own copy
\* visited \cup {(sourceFilePath, name)}
RECURSIVE PerBranchUsage(_, _, _)
PerBranchUsage(name, sourceFilePath, visited) ==
  IF <<sourceFilePath, name>> \in visited THEN {}
  ELSE LET own == visited \cup {<<sourceFilePath, name>>}
           importers == {i \in 1..Len(imports) :
                           /\ importResolvesTo(imports[i], sourceFilePath)
                           /\ findMatchingImportSpecifier(imports[i], name) # NoMatch}
           forwarders == {i \in 1..Len(exports) :
                            /\ exportResolvesTo(exports[i], sourceFilePath)
                            /\ matchingExportSpec(exports[i], name).local # NoName}
           aliases(i) == Range(findReexports(imports[i].filePath,
                                             findMatchingImportSpecifier(imports[i], name).local))
       IN UNION {ConsumersThrough(imports[i], name) : i \in importers}
            \cup UNION {UNION {PerBranchUsage(a, imports[i].filePath, own) : a \in aliases(i)} :
                          i \in importers}
            \cup UNION {PerBranchUsage(reexportedNameOf(matchingExportSpec(exports[i], name), name),
                                       exports[i].filePath, own) : i \in forwarders}

\* C29: the ids a findExternalUsage call returns with its one shared visited
\* set are the ids the per-branch traversal returns.
SharedVisitedSameSet ==
  Traced =>
    \A i \in 1..Len(results) : \A c \in 1..Len(results[i].calls) :
      Range(results[i].calls[c].usage)
        = PerBranchUsage(results[i].calls[c].name, FileOfResult(i), {})

\* a call whose shared set cut a branch short (a module reached a second
\* time) and which still reports every consumer of the per-branch traversal
SharedVisitedWitness ==
  /\ Traced
  /\ \E i \in 1..Len(results) : \E c \in 1..Len(results[i].calls) :
       /\ results[i].calls[c].hits # <<>>
       /\ Len(results[i].calls[c].expanded) >= 3
       /\ results[i].calls[c].usage # <<>>
       /\ Range(results[i].calls[c].usage)
            = PerBranchUsage(results[i].calls[c].name, FileOfResult(i), {})

\* -------- computed keys --------
ComputedKeyMention == Log(ObjExpr(<<Prop(Id("x"), NumLit, FALSE, TRUE)>>))

\* C30: the identifier of a computed key, `{ [x]: v }`, is a reference and is
\* counted as a usage of the module-level x, as `obj[x]` is.
ComputedKeyIsUsage ==
  Traced =>
    /\ FragmentMentions(ComputedMemberMention) => Includes(results[1].internal, 2)
    /\ FragmentMentions(ComputedKeyMention) => Includes(results[1].internal, 2)

====
